---------------------------- MODULE Spec2Model ----------------------------
(***************************************************************************)
(* Model of the reconciliation pipeline of perspective_reddit_bot          *)
(* (check_mod_actions.py): resume by seek_past_ids, the sentinel-driven    *)
(* read_lines / read_batches batcher, read_records_with_wait / wait_until  *)
(* and check_mod_actions appending to the output log.                      *)
(*                                                                         *)
(* Time is discrete.  Python statements take no time; time passes only     *)
(* while the process is inside time.sleep (which returns when the          *)
(* requested duration has elapsed, or up to Overshoot later) or inside     *)
(* the reddit.info network call.  Files are sequences of records and a     *)
(* file position is the number of lines before it.                         *)
(*                                                                         *)
(* Further models: the rules of perspective_rule.py and the configuration  *)
(* loader of config.py, as functions applied to bounded inputs; the        *)
(* moderation loop of moderate_subreddit.py (score_subreddit), one comment *)
(* of the stream at a time, with apply_action also studied on its own; and *)
(* the request loop of perspective_client.py (_post_request under          *)
(* score_text).  A Python str is a sequence of one-character strings; the  *)
(* body of a comment is a sequence of lines.                               *)
(***************************************************************************)
EXTENDS Integers, Sequences, FiniteSets, TLC

\* ------------------------------------------------------------------ bounds
\* Longest input log the logger builds by appending, and the id universe.
MaxLen == 3
\* Half of -batch_delay_secs, in clock units (read_batches divides by two).
HalfDelay == 1
\* Largest -hours_to_wait, in clock units.
MaxWait == 2
\* The clock stops here.
MaxTime == 6
\* The longest time.sleep returns late.
Overshoot == 1

\* check_mod_actions.py:133
_PRAW_BATCH_SIZE == 100

Ids == 1..MaxLen

\* -batch_delay_secs as a timedelta, and lines_delay of read_batches.
max_batch_delay == 2 * HalfDelay
lines_delay == max_batch_delay \div 2

\* ------------------------------------------------------------- timestamps
\* datetime_timestamp: a fixed-width decimal string, here two digits.
datetime_timestamp(dt) == <<dt \div 10, dt % 10>>

\* datetime.strptime(s, '%Y%m%d_%H%M%S')
strptime(s) == s[1] * 10 + s[2]

\* Python's < on two strings of equal length: lexicographic.
StrLess(a, b) == a[1] < b[1] \/ (a[1] = b[1] /\ a[2] < b[2])

\* max(r[timestamp_key] for r in records): the max of strings.
MaxStr(S) == CHOOSE m \in S : \A s \in S : ~StrLess(m, s)

Record(i, t) == [comment_id |-> i, created_utc |-> datetime_timestamp(t)]

\* The comment id of line k of the file given as -input_path: a new id or
\* the id of the first line once more.
NextIds(k) == {k, 1}

\* ------------------------------------------------------------------ state
VARIABLES
  input,            \* the input log: lines written by the logger
  output,           \* the output log
  stop_at_eof,      \* -stop_at_eof
  wait_delta,       \* -hours_to_wait as a timedelta
  now,              \* datetime.utcnow()
  pc,               \* where the process is
  ids_to_skip,      \* _main: ids read from the output log
  pos,              \* read_lines: position of f (lines consumed)
  skipped,          \* seek_past_ids: skipped
  last_time,        \* read_lines: last_time
  last_yield_time,  \* read_batches: last_yield_time
  current_batch,    \* read_batches: current_batch
  oldest_read,      \* ghost: when the first record of current_batch was read
  lines_exited,     \* read_lines has returned
  records,          \* read_records_with_wait: the batch being handled
  wake_at,          \* when the running time.sleep returns
  emitted,          \* ghost: batches yielded by read_batches in this run
  waited,           \* ghost: age of the oldest record of the last batch yielded
  first_fed,        \* ghost: input line first fed to the batcher in this run
  seek_len,         \* ghost: length of the input when seek_past_ids ran
  has_mod_creds,    \* -mod_creds / -no_mod_creds
  statuses,         \* check_mod_actions: what is left of statuses
  comments_by_id,   \* check_mod_actions: comments_by_id (id -> index in records)
  response,         \* ghost: what reddit.info returns for the batch
  warned,           \* ghost: ids printed as 'not in comments_by_id'
  leftover,         \* ghost: ids printed as 'did not have status data'
  arg,              \* the arguments of a function under study
  ret,              \* what it returned
  loop_i,           \* score_subreddit: i, the index of the comment
  loop_comment,     \* score_subreddit: comment, the comment of this iteration
  comment_for_scoring, \* score_subreddit: the text that was scored
  scores,           \* score_subreddit: scores
  action_dict,      \* score_subreddit: action_dict
  initial_mod_permissions, \* score_subreddit: initial_mod_permissions
  recent_mod_permissions,  \* score_subreddit: recent_mod_permissions
  reports,          \* ghost: the calls comment.report(text) made so far
  mod_log,          \* the file at output_path: the records written
  events,           \* ghost: what was done for the comment of this iteration
  _LAST_QUOTA_ERROR, \* perspective_client: the global _LAST_QUOTA_ERROR
  seen_comment_ids, \* comment_stream: seen_comment_ids, a deque
  listing,          \* what stream.comments() has yet to deliver of its listing
  yielded,          \* ghost: the ids comment_stream has yielded
  delivered,        \* ghost: the newest comment stream.comments() has delivered
  frame,            \* dedup_stream: the locals of the generator
  out_file          \* dedup_within_window: the lines written to out_path

\* The state of the logger (log_subreddit_comments.py) and of the offline
\* tools.
tools == <<seen_comment_ids, listing, yielded, delivered, frame, out_file>>

vars == <<input, output, stop_at_eof, wait_delta, now, pc, ids_to_skip, pos,
          skipped, last_time, last_yield_time, current_batch, oldest_read,
          lines_exited, records, wake_at, emitted, waited, first_fed,
          seek_len, has_mod_creds, statuses, comments_by_id, response,
          warned, leftover, arg, ret, loop_i, loop_comment,
          comment_for_scoring,
          scores, action_dict, initial_mod_permissions,
          recent_mod_permissions, reports, mod_log, events,
          _LAST_QUOTA_ERROR, tools>>

env == <<input, output, stop_at_eof, wait_delta, now>>

\* Neither the logger's stream nor a tool is running.
ToolsAtRest ==
  /\ seen_comment_ids = <<>>
  /\ listing = <<>>
  /\ yielded = <<>>
  /\ delivered = 0
  /\ frame = <<>>
  /\ out_file = <<>>

\* The state of the moderation bot (moderate_subreddit.py).
bot == <<loop_i, loop_comment, comment_for_scoring, scores, action_dict,
         initial_mod_permissions, recent_mod_permissions, reports, mod_log,
         events>>

\* What the batching pipeline above check_mod_actions never touches.
aux == <<has_mod_creds, statuses, comments_by_id, response, warned, leftover,
         arg, ret, bot, _LAST_QUOTA_ERROR, tools>>

\* The bot is not running.
BotAtRest ==
  /\ loop_i = 0
  /\ loop_comment = <<>>
  /\ comment_for_scoring = <<>>
  /\ scores = <<>>
  /\ action_dict = <<>>
  /\ initial_mod_permissions = FALSE
  /\ recent_mod_permissions = FALSE
  /\ reports = <<>>
  /\ mod_log = <<>>
  /\ events = <<>>

\* ------------------------------------------------------------ seek_past_ids
\* A resume set that accepts every count of skipped records.
skip_count_ok_any(n, ids) == TRUE

\* The check made on the first record that is not to be skipped.
skip_count_ok(n, ids) == n = Cardinality(ids)

RECURSIVE seek_loop(_, _, _, _)
\* The while loop with f at position p and n records skipped: pos is the
\* position saved before the last readline, tell the position after it.
seek_loop(f, ids, p, n) ==
  IF p = Len(f)
    THEN [pos |-> p, tell |-> p, skipped |-> n, error |-> "eof"]
    ELSE IF f[p + 1].comment_id \in ids
      THEN seek_loop(f, ids, p + 1, n + 1)
      ELSE [pos |-> p, tell |-> p + 1, skipped |-> n,
            error |-> IF skip_count_ok(n, ids) THEN "none" ELSE "count"]

\* seek_past_ids without the final f.seek(pos).
seek_past_ids_no_reset(f, ids) ==
  LET r == seek_loop(f, ids, 0, 0)
  IN [pos |-> r.tell, skipped |-> r.skipped, error |-> r.error]

\* seek_past_ids that returns at end of file instead of raising.
seek_past_ids_eof_ok(f, ids) ==
  LET r == seek_loop(f, ids, 0, 0)
  IN [pos |-> IF r.error = "none" THEN r.pos ELSE r.tell,
      skipped |-> r.skipped,
      error |-> IF r.error = "eof" THEN "none" ELSE r.error]

\* Where seek_past_ids leaves f, and whether it raised: on success f is
\* set back to the first record that is not skipped.
seek_past_ids(f, ids) ==
  LET r == seek_loop(f, ids, 0, 0)
  IN [pos |-> IF r.error = "none" THEN r.pos ELSE r.tell,
      skipped |-> r.skipped, error |-> r.error]

\* A restart that does not load the ids of the output log.
read_comment_ids_none(f) == {}

\* read_comment_ids
read_comment_ids(f) == {f[i].comment_id : i \in 1..Len(f)}

\* ---------------------------------------------------------------- batcher
\* A flush condition that tests the size with > instead of ==.
ShouldYield_gt(batch, t, lyt) ==
  /\ batch # <<>>
  /\ (Len(batch) > _PRAW_BATCH_SIZE \/ t - lyt > max_batch_delay)

\* A flush condition without the delay trigger.
ShouldYield_size_only(batch, t, lyt) ==
  /\ batch # <<>>
  /\ Len(batch) = _PRAW_BATCH_SIZE

\* The flush condition of read_batches.
ShouldYield(batch, t, lyt) ==
  /\ batch # <<>>
  /\ (Len(batch) = _PRAW_BATCH_SIZE \/ t - lyt > max_batch_delay)

\* The time to proceed taken from the first record of the batch.
time_to_proceed_first(batch) ==
  strptime(batch[1].created_utc) + wait_delta

\* read_records_with_wait: the time wait_until is called with.
time_to_proceed(batch) ==
  strptime(MaxStr({batch[i].created_utc : i \in 1..Len(batch)})) + wait_delta

\* A batch leaves read_batches: read_records_with_wait takes it and
\* wait_until sleeps when it is too young.
YieldBatch(batch, oldest, trigger) ==
  /\ records' = batch
  /\ emitted' = Append(emitted, [n |-> Len(batch), trigger |-> trigger])
  /\ waited' = now - oldest
  /\ IF now < time_to_proceed(batch)
       THEN pc' = "wait" /\ wake_at' = time_to_proceed(batch)
       ELSE pc' = "fetch" /\ wake_at' = 0

\* The body of the for loop of read_batches for one value from read_lines.
Batcher(batch, oldest) ==
  IF ShouldYield(batch, now, last_yield_time)
    THEN /\ YieldBatch(batch, oldest,
               IF Len(batch) = _PRAW_BATCH_SIZE THEN "size" ELSE "delay")
         /\ current_batch' = <<>>
         /\ oldest_read' = 0
         /\ last_yield_time' = now
    ELSE /\ current_batch' = batch
         /\ oldest_read' = oldest
         /\ pc' = "lines"
         /\ UNCHANGED <<records, emitted, waited, wake_at, last_yield_time>>

\* append_records opening the file with 'w'.
append_records_w(f, recs) == recs

\* append_records writing only the records that carry a status.
append_records_checked(f, recs) ==
  f \o SelectSeq(recs, LAMBDA r : "deleted" \in DOMAIN r)

\* append_records: the file is opened with 'a'.
append_records(f, recs) == f \o recs

\* ---------------------------------------------------------------- actions
\* _main up to the first iteration of read_lines: the resume set is read
\* from the output log, the input is opened and seek_past_ids runs.
Main ==
  /\ pc = "start"
  /\ LET ids == read_comment_ids(output)
         r == seek_past_ids(input, ids)
     IN /\ ids_to_skip' = ids
        /\ current_batch' = <<>>
        /\ last_yield_time' = now
        /\ IF ids # {}
             THEN /\ pos' = r.pos
                  /\ skipped' = r.skipped
                  /\ seek_len' = Len(input)
                  /\ pc' = IF r.error = "none" THEN "lines" ELSE "failed"
             ELSE /\ pos' = 0
                  /\ skipped' = 0
                  /\ seek_len' = 0
                  /\ pc' = "lines"
        /\ last_time' = now
  /\ UNCHANGED <<env, oldest_read, lines_exited, records, wake_at, emitted,
                 waited, first_fed>>
  /\ UNCHANGED aux

\* read_lines reads a line and yields it to read_batches.
ReadLine ==
  /\ pc = "lines"
  /\ pos < Len(input)
  /\ pos' = pos + 1
  /\ first_fed' = IF first_fed = 0 THEN pos + 1 ELSE first_fed
  /\ last_time' = now
  /\ Batcher(Append(current_batch, input[pos + 1]),
             IF current_batch = <<>> THEN now ELSE oldest_read)
  /\ UNCHANGED <<env, ids_to_skip, skipped, lines_exited, seek_len>>
  /\ UNCHANGED aux

\* read_batches without the flush after its for loop.
StopAtEof_no_flush ==
  /\ pc = "lines"
  /\ pos = Len(input)
  /\ stop_at_eof
  /\ lines_exited' = TRUE
  /\ pc' = "done"
  /\ UNCHANGED <<env, ids_to_skip, pos, skipped, last_time, last_yield_time,
                 current_batch, oldest_read, records, emitted, waited,
                 wake_at, first_fed, seek_len, aux>>

\* read_lines returns at end of file; read_batches yields what is left.
StopAtEof ==
  /\ pc = "lines"
  /\ pos = Len(input)
  /\ stop_at_eof
  /\ lines_exited' = TRUE
  /\ IF current_batch # <<>>
       THEN /\ YieldBatch(current_batch, oldest_read, "eof")
            /\ current_batch' = <<>>
            /\ oldest_read' = 0
       ELSE /\ pc' = "done"
            /\ UNCHANGED <<records, emitted, waited, wake_at, current_batch,
                           oldest_read>>
  /\ UNCHANGED <<env, ids_to_skip, pos, skipped, last_time, last_yield_time,
                 first_fed, seek_len>>
  /\ UNCHANGED aux

\* read_lines at end of file yields the sentinel.
Sentinel ==
  /\ pc = "lines"
  /\ pos = Len(input)
  /\ ~stop_at_eof
  /\ now - last_time > lines_delay
  /\ last_time' = now
  /\ Batcher(current_batch, oldest_read)
  /\ UNCHANGED <<env, ids_to_skip, pos, skipped, lines_exited, first_fed,
                 seek_len>>
  /\ UNCHANGED aux

\* read_lines that returns at end of file also without -stop_at_eof.
Sleep_return ==
  /\ pc = "lines"
  /\ pos = Len(input)
  /\ ~stop_at_eof
  /\ ~(now - last_time > lines_delay)
  /\ pc' = "done"
  /\ lines_exited' = TRUE
  /\ UNCHANGED <<env, ids_to_skip, pos, skipped, last_time, last_yield_time,
                 current_batch, oldest_read, records, emitted, waited,
                 wake_at, first_fed, seek_len, aux>>

\* read_lines at end of file goes to sleep.
Sleep ==
  /\ pc = "lines"
  /\ pos = Len(input)
  /\ ~stop_at_eof
  /\ ~(now - last_time > lines_delay)
  /\ pc' = "sleep"
  /\ wake_at' = now + lines_delay
  /\ UNCHANGED <<env, ids_to_skip, pos, skipped, last_time, last_yield_time,
                 current_batch, oldest_read, lines_exited, records, emitted,
                 waited, first_fed, seek_len>>
  /\ UNCHANGED aux

\* time.sleep of read_lines returns.
Wake ==
  /\ pc = "sleep"
  /\ now >= wake_at
  /\ pc' = "lines"
  /\ wake_at' = 0
  /\ UNCHANGED <<env, ids_to_skip, pos, skipped, last_time, last_yield_time,
                 current_batch, oldest_read, lines_exited, records, emitted,
                 waited, first_fed, seek_len>>
  /\ UNCHANGED aux

\* time.sleep of wait_until returns; check_mod_actions is called.
WaitDone ==
  /\ pc = "wait"
  /\ now >= wake_at
  /\ pc' = "fetch"
  /\ wake_at' = 0
  /\ UNCHANGED <<env, ids_to_skip, pos, skipped, last_time, last_yield_time,
                 current_batch, oldest_read, lines_exited, records, emitted,
                 waited, first_fed, seek_len>>
  /\ UNCHANGED aux

\* check_mod_actions appends the batch to the output log; _main asks
\* for the next batch.
CheckModActions ==
  /\ pc = "fetch"
  /\ output' = append_records(output, records)
  /\ records' = <<>>
  /\ waited' = 0
  /\ pc' = IF lines_exited THEN "done" ELSE "lines"
  /\ UNCHANGED <<input, stop_at_eof, wait_delta, now, ids_to_skip, pos,
                 skipped, last_time, last_yield_time, current_batch,
                 oldest_read, lines_exited, wake_at, emitted, first_fed,
                 seek_len>>
  /\ UNCHANGED aux

\* The clock advances while the process is in time.sleep: the sleep lasts
\* at least the requested duration and at most Overshoot longer.
SleepTick ==
  /\ now < MaxTime
  /\ pc \in {"sleep", "wait"}
  /\ now < wake_at + Overshoot
  /\ now' = now + 1
  /\ UNCHANGED <<input, output, stop_at_eof, wait_delta, pc, ids_to_skip,
                 pos, skipped, last_time, last_yield_time, current_batch,
                 oldest_read, lines_exited, records, wake_at, emitted,
                 waited, first_fed, seek_len>>
  /\ UNCHANGED aux

\* The clock advances while check_mod_actions waits for reddit.info.
FetchTick ==
  /\ now < MaxTime
  /\ pc = "fetch"
  /\ now' = now + 1
  /\ UNCHANGED <<input, output, stop_at_eof, wait_delta, pc, ids_to_skip,
                 pos, skipped, last_time, last_yield_time, current_batch,
                 oldest_read, lines_exited, records, wake_at, emitted,
                 waited, first_fed, seek_len>>
  /\ UNCHANGED aux

Tick ==
  \/ SleepTick
  \/ FetchTick

\* The logger appends the record of a comment created now to the input log.
LogComment ==
  /\ Len(input) < MaxLen
  /\ \E i \in NextIds(Len(input) + 1) :
       input' = Append(input, Record(i, now))
  /\ UNCHANGED <<output, stop_at_eof, wait_delta, now, pc, ids_to_skip, pos,
                 skipped, last_time, last_yield_time, current_batch,
                 oldest_read, lines_exited, records, wake_at, emitted,
                 waited, first_fed, seek_len>>
  /\ UNCHANGED aux

\* The process is killed, or has ended, and is started again.
Restart ==
  /\ pc # "start"
  /\ pc' = "start"
  /\ ids_to_skip' = {}
  /\ pos' = 0
  /\ skipped' = 0
  /\ last_time' = 0
  /\ last_yield_time' = 0
  /\ current_batch' = <<>>
  /\ oldest_read' = 0
  /\ lines_exited' = FALSE
  /\ records' = <<>>
  /\ wake_at' = 0
  /\ emitted' = <<>>
  /\ waited' = 0
  /\ first_fed' = 0
  /\ seek_len' = 0
  /\ UNCHANGED env
  /\ UNCHANGED aux

\* ------------------------------------------------------------------- Init
\* Every log of at most n records over Ids, all created at time 0.
Logs(n) == UNION {[1..k -> {Record(i, 0) : i \in Ids}] : k \in 0..n}

\* The logs of at most n records the logger can have written at time 0.
LoggerLogs(n) ==
  {f \in Logs(n) : \A k \in 1..Len(f) : f[k].comment_id \in NextIds(k)}

InitProcess ==
  /\ now = 0
  /\ pc = "start"
  /\ ids_to_skip = {}
  /\ pos = 0
  /\ skipped = 0
  /\ last_time = 0
  /\ last_yield_time = 0
  /\ current_batch = <<>>
  /\ oldest_read = 0
  /\ lines_exited = FALSE
  /\ records = <<>>
  /\ wake_at = 0
  /\ emitted = <<>>
  /\ waited = 0
  /\ first_fed = 0
  /\ seek_len = 0
  /\ has_mod_creds = FALSE
  /\ statuses = <<>>
  /\ comments_by_id = <<>>
  /\ response = <<>>
  /\ warned = {}
  /\ leftover = {}
  /\ arg = <<>>
  /\ ret = <<>>
  /\ BotAtRest
  /\ _LAST_QUOTA_ERROR = <<>>
  /\ ToolsAtRest

\* A first run: no output log yet.
Init ==
  /\ input \in LoggerLogs(MaxLen)
  /\ output = <<>>
  /\ stop_at_eof \in BOOLEAN
  /\ wait_delta \in {0, MaxWait}
  /\ InitProcess

Step ==
  \/ Main
  \/ ReadLine
  \/ StopAtEof
  \/ Sentinel
  \/ Sleep
  \/ Wake
  \/ WaitDone
  \/ CheckModActions

Next ==
  \/ Step
  \/ Tick
  \/ LogComment
  \/ Restart

Spec == Init /\ [][Next]_vars

\* A run over any input log with any non-empty output log already there,
\* with -stop_at_eof and no wait.
InitSeek ==
  /\ input \in Logs(MaxLen)
  /\ output \in Logs(MaxLen) \ {<<>>}
  /\ stop_at_eof = TRUE
  /\ wait_delta = 0
  /\ InitProcess

NextSeek ==
  \/ Main
  \/ ReadLine
  \/ StopAtEof
  \/ CheckModActions

SpecSeek == InitSeek /\ [][NextSeek]_vars

\* A burst: 250 records, all in the input log when the first run starts.
Burst == [i \in 1..250 |-> Record(i, 0)]

InitBurst ==
  /\ input = Burst
  /\ output = <<>>
  /\ stop_at_eof \in BOOLEAN
  /\ wait_delta \in {0, MaxWait}
  /\ InitProcess

NextBurst ==
  \/ Step
  \/ Tick

SpecBurst == InitBurst /\ [][NextBurst]_vars

\* One run without -stop_at_eof and without -hours_to_wait, on a status
\* source that answers at once: the reader and the batcher alone decide
\* when a batch leaves.
InitIdle ==
  /\ input \in LoggerLogs(MaxLen)
  /\ output = <<>>
  /\ stop_at_eof = FALSE
  /\ wait_delta = 0
  /\ InitProcess

NextIdle ==
  \/ Main
  \/ ReadLine
  \/ Sentinel
  \/ Sleep
  \/ Wake
  \/ CheckModActions
  \/ SleepTick
  \/ LogComment

SpecIdle == InitIdle /\ [][NextIdle]_vars

\* One run, in which the process keeps running and the clock keeps
\* advancing.
NextRun ==
  \/ Step
  \/ Tick
  \/ LogComment

SpecLive ==
  /\ Init
  /\ [][NextRun]_vars
  /\ WF_vars(Step)
  /\ WF_vars(Tick)

\* One run in either mode that may find an output log left by an earlier
\* run over the same input: a prefix of the input log.
InitResume ==
  /\ input \in LoggerLogs(MaxLen)
  /\ output \in {SubSeq(input, 1, k) : k \in 0..Len(input)}
  /\ stop_at_eof \in BOOLEAN
  /\ wait_delta \in {0, MaxWait}
  /\ InitProcess

SpecStop ==
  /\ InitResume
  /\ [][NextRun]_vars
  /\ WF_vars(Step)
  /\ WF_vars(Tick)

\* The run of SpecIdle, in which the process keeps running and the clock
\* keeps advancing while it sleeps.
SpecPoll ==
  /\ InitIdle
  /\ [][NextIdle]_vars
  /\ WF_vars(Main \/ ReadLine \/ Sentinel \/ Sleep \/ Wake \/ CheckModActions)
  /\ WF_vars(SleepTick)

\* ------------------------------------------------------ get_comment_status
\* Python's None where a string is expected, where a comment id is
\* expected, and where a dict is expected.
None == "None"
NoneId == 0
NoneDict == <<>>

\* A comment object as reddit.info returns it; raises says that reading its
\* attributes raises (the object is fetched lazily).
Comment(i, author, body, approved, removed, raises) ==
  [id |-> i, author |-> author, body |-> body, approved |-> approved,
   removed |-> removed, score |-> 1, ups |-> 1, downs |-> 0,
   score_hidden |-> FALSE, collapsed |-> FALSE, raises |-> raises]

\* get_comment_status that infers removed from the body text also with
\* moderator credentials.
get_comment_status_text(comment, mod_creds) ==
  IF comment.raises
    THEN <<NoneId, NoneDict>>
    ELSE LET status ==
               [deleted |-> comment.author = None /\ comment.body = "[deleted]",
                removed |-> comment.author = None /\ comment.body = "[removed]",
                score |-> comment.score,
                ups |-> comment.ups,
                downs |-> comment.downs,
                score_hidden |-> comment.score_hidden,
                collapsed |-> comment.collapsed]
         IN <<comment.id,
              IF mod_creds
                THEN [approved |-> comment.approved] @@ status
                ELSE status>>

\* get_comment_status: the pair (comment.id, status), or (None, None) when
\* an attribute cannot be read.
get_comment_status(comment, mod_creds) ==
  IF comment.raises
    THEN <<NoneId, NoneDict>>
    ELSE LET status ==
               [deleted |-> comment.author = None /\ comment.body = "[deleted]",
                score |-> comment.score,
                ups |-> comment.ups,
                downs |-> comment.downs,
                score_hidden |-> comment.score_hidden,
                collapsed |-> comment.collapsed]
         IN <<comment.id,
              IF mod_creds
                THEN [approved |-> comment.approved,
                      removed |-> comment.removed] @@ status
                ELSE [removed |-> comment.author = None
                                    /\ comment.body = "[removed]"] @@ status>>

\* The comments get_comment_status is studied on.
StatusComments ==
  {Comment(1, a, b, ap, rm, rs) :
     a \in {None, "username"}, b \in {"[deleted]", "[removed]", "hello"},
     ap \in BOOLEAN, rm \in BOOLEAN, rs \in BOOLEAN}

\* get_comment_status is called with arg and returns.
GetCommentStatus ==
  /\ pc = "call"
  /\ ret' = get_comment_status(arg.comment, arg.has_mod_creds)
  /\ pc' = "returned"
  /\ UNCHANGED <<env, ids_to_skip, pos, skipped, last_time, last_yield_time,
                 current_batch, oldest_read, lines_exited, records, wake_at,
                 emitted, waited, first_fed, seek_len, has_mod_creds,
                 statuses, comments_by_id, response, warned, leftover, arg>>
  /\ UNCHANGED <<bot, _LAST_QUOTA_ERROR, tools>>

\* The reconciliation pipeline is not running.
PipelineAtRest ==
  /\ input = <<>>
  /\ output = <<>>
  /\ stop_at_eof = FALSE
  /\ wait_delta = 0
  /\ now = 0
  /\ ids_to_skip = {}
  /\ pos = 0
  /\ skipped = 0
  /\ last_time = 0
  /\ last_yield_time = 0
  /\ current_batch = <<>>
  /\ oldest_read = 0
  /\ lines_exited = FALSE
  /\ records = <<>>
  /\ wake_at = 0
  /\ emitted = <<>>
  /\ waited = 0
  /\ first_fed = 0
  /\ seek_len = 0
  /\ has_mod_creds = FALSE
  /\ statuses = <<>>
  /\ comments_by_id = <<>>
  /\ response = <<>>
  /\ warned = {}
  /\ leftover = {}

\* Everything but pc, arg and ret at rest: a function is studied alone.
InitCall ==
  /\ PipelineAtRest
  /\ pc = "call"
  /\ ret = <<>>
  /\ BotAtRest
  /\ _LAST_QUOTA_ERROR = <<>>
  /\ ToolsAtRest

InitStatus ==
  /\ InitCall
  /\ arg \in [comment : StatusComments, has_mod_creds : BOOLEAN]

NextStatus == GetCommentStatus

SpecStatus == InitStatus /\ [][NextStatus]_vars

\* -------------------------------------------------------- perspective_rule
\* A rule predicate may name up to this many models.
MaxPreds == 2

\* Model names of the rules and of the score map.
Models == {"TOXICITY", "THREAT"}

\* Scores and thresholds are floats with one decimal, held in tenths.
Scores == {2, 5, 9}

\* Text is a sequence of characters.
Comparators == {<<">">>, <<"<">>, <<">", "=">>}

Thresholds == {<<"0", ".", "5">>, <<"0", ".", "9">>}

\* The comparison strings of a configuration: 'comparator threshold', and
\* one written without the separating blank.
Comparisons ==
  {c \o <<" ">> \o t : c \in Comparators, t \in Thresholds}
    \cup {<<">", "0", ".", "5">>}

\* str.split(): the maximal runs of non-blank characters.
RECURSIVE split_from(_, _, _)
split_from(s, i, word) ==
  IF i > Len(s)
    THEN IF word = <<>> THEN <<>> ELSE <<word>>
    ELSE IF s[i] = " "
           THEN IF word = <<>>
                  THEN split_from(s, i + 1, <<>>)
                  ELSE <<word>> \o split_from(s, i + 1, <<>>)
           ELSE split_from(s, i + 1, Append(word, s[i]))

split(s) == split_from(s, 1, <<>>)

Digits == {"0", "1", "2", "3", "4", "5", "6", "7", "8", "9"}

digit(c) ==
  CASE c = "0" -> 0 [] c = "1" -> 1 [] c = "2" -> 2 [] c = "3" -> 3
    [] c = "4" -> 4 [] c = "5" -> 5 [] c = "6" -> 6 [] c = "7" -> 7
    [] c = "8" -> 8 [] c = "9" -> 9

\* The texts float() accepts here: 'd' and 'd.d'.
is_float(s) ==
  \/ Len(s) = 1 /\ s[1] \in Digits
  \/ Len(s) = 3 /\ s[1] \in Digits /\ s[2] = "." /\ s[3] \in Digits

\* float(s), in tenths.
float(s) ==
  IF Len(s) = 1 THEN 10 * digit(s[1]) ELSE 10 * digit(s[1]) + digit(s[3])

\* An outcome of a call: a returned value or a raised exception.
Return(v) == [raised |-> None, value |-> v]

Raise(exc) == [raised |-> exc, value |-> FALSE]

\* _compare with inclusive comparisons.
_compare_inclusive(score, comparator, threshold) ==
  IF comparator = <<">">>
    THEN Return(score >= threshold)
    ELSE IF comparator = <<"<">>
           THEN Return(score <= threshold)
           ELSE Raise("ValueError")

\* Rule._compare.
_compare(score, comparator, threshold) ==
  IF comparator = <<">">>
    THEN Return(score > threshold)
    ELSE IF comparator = <<"<">>
           THEN Return(score < threshold)
           ELSE Raise("ValueError")

\* The loop over model_rules.iteritems(), from its i-th item on.  In
\* 'state and self._compare(...)' the right operand, with its lookup
\* model_scores[model] and its float(threshold), is evaluated only while
\* state is true.
RECURSIVE model_rules_loop(_, _, _, _)
model_rules_loop(items, i, state, model_scores) ==
  IF i > Len(items)
    THEN Return(state)
    ELSE LET model == items[i][1]
             comparison == items[i][2]
         IN IF Len(split(comparison)) # 2
              THEN Raise("AssertionError")
              ELSE LET comparator == split(comparison)[1]
                       threshold == split(comparison)[2]
                   IN IF ~state
                        THEN model_rules_loop(items, i + 1, FALSE, model_scores)
                        ELSE IF model \notin DOMAIN model_scores
                               THEN Raise("KeyError")
                               ELSE IF ~is_float(threshold)
                                      THEN Raise("ValueError")
                                      ELSE LET r == _compare(model_scores[model],
                                                             comparator,
                                                             float(threshold))
                                           IN IF r.raised # None
                                                THEN r
                                                ELSE model_rules_loop(
                                                       items, i + 1, r.value,
                                                       model_scores)

\* Rule.check_model_rules.  self.model_rules is held as the sequence of its
\* items in the order iteritems() gives them.
check_model_rules(self, model_scores, comment) ==
  LET r == model_rules_loop(self.model_rules, 1, TRUE, model_scores)
      features == self.comment_feature_rules
  IN IF r.raised # None
       THEN r
       ELSE IF "toplevel_only" \in DOMAIN features /\ features.toplevel_only
              THEN Return(r.value /\ comment.link_id = comment.parent_id)
              ELSE r

\* Sequences of distinct models: the key orders of a dict.
ModelOrders ==
  {o \in UNION {[1..n -> Models] : n \in 1..MaxPreds} :
     \A i, j \in DOMAIN o : i # j => o[i] # o[j]}

\* The model_rules of a Rule: non-empty (line 44), one comparison per model.
ModelRules ==
  UNION {{[i \in DOMAIN o |-> <<o[i], cs[i]>>] : cs \in [DOMAIN o -> Comparisons]} :
           o \in ModelOrders}

\* comment_feature_rules: empty, or toplevel_only true or false.
FeatureRules ==
  {<<>>} \cup {[toplevel_only |-> b] : b \in BOOLEAN}

Rules ==
  [model_rules : ModelRules, comment_feature_rules : FeatureRules]

\* Score maps: a score for some of the models.
ScoreMaps == UNION {[D -> Scores] : D \in SUBSET Models}

\* A top-level comment and a reply.
RuleComments ==
  {[link_id |-> "t3_a", parent_id |-> p] : p \in {"t3_a", "t1_b"}}

\* check_model_rules is called with arg and returns or raises.
CheckModelRules ==
  /\ pc = "call"
  /\ LET r == check_model_rules(arg.self, arg.model_scores, arg.comment)
     IN /\ ret' = r
        /\ pc' = IF r.raised = None THEN "returned" ELSE "raised"
  /\ UNCHANGED <<env, ids_to_skip, pos, skipped, last_time, last_yield_time,
                 current_batch, oldest_read, lines_exited, records, wake_at,
                 emitted, waited, first_fed, seek_len, has_mod_creds,
                 statuses, comments_by_id, response, warned, leftover, arg>>
  /\ UNCHANGED <<bot, _LAST_QUOTA_ERROR, tools>>

InitRule ==
  /\ InitCall
  /\ arg \in [self : Rules, model_scores : ScoreMaps, comment : RuleComments]

NextRule == CheckModelRules

SpecRule == InitRule /\ [][NextRule]_vars

\* ------------------------------------------------------------------- text
\* A text (a Python str) is the sequence of its characters; the empty text
\* also stands for None where the code only tests 'not text'.
NoText == <<>>

\* The characters of names, in the order of their codes.
CharOrder ==
  <<"0", "1", "2", "3", "4", "5", "6", "7", "8", "9",
    "A", "B", "C", "D", "E", "F", "G", "H", "I", "J", "K", "L", "M",
    "N", "O", "P", "Q", "R", "S", "T", "U", "V", "W", "X", "Y", "Z",
    "_",
    "a", "b", "c", "d", "e", "f", "g", "h", "i", "j", "k", "l", "m",
    "n", "o", "p", "q", "r", "s", "t", "u", "v", "w", "x", "y", "z">>

ord(c) == CHOOSE k \in DOMAIN CharOrder : CharOrder[k] = c

\* s < t for two str: the first differing character decides, a proper
\* prefix is smaller.
RECURSIVE str_lt(_, _)
str_lt(s, t) ==
  IF t = <<>>
    THEN FALSE
    ELSE IF s = <<>>
           THEN TRUE
           ELSE IF Head(s) = Head(t)
                  THEN str_lt(Tail(s), Tail(t))
                  ELSE ord(Head(s)) < ord(Head(t))

\* sorted(xs) for a set of str.
RECURSIVE sorted(_)
sorted(xs) ==
  IF xs = {}
    THEN <<>>
    ELSE LET least == CHOOSE x \in xs : \A y \in xs \ {x} : str_lt(x, y)
         IN <<least>> \o sorted(xs \ {least})

\* sep.join(xs) for a sequence of str.
RECURSIVE join(_, _)
join(sep, xs) ==
  IF xs = <<>>
    THEN <<>>
    ELSE IF Len(xs) = 1
           THEN xs[1]
           ELSE xs[1] \o sep \o join(sep, Tail(xs))

\* A dict is the sequence of its (key, value) items in iteration order.
keys(d) == {d[k][1] : k \in DOMAIN d}

\* d.get(key, default) for a record of a parsed configuration.
get(d, key, default) == IF key \in DOMAIN d THEN d[key] ELSE default

\* The elements of a list, as a set.
set(xs) == {xs[k] : k \in DOMAIN xs}

\* The str literals of the model: API model names, ensemble and rule names.
s_TOXICITY ==
  <<"T", "O", "X", "I", "C", "I", "T", "Y">>

s_SEVERE_TOXICITY ==
  <<"S", "E", "V", "E", "R", "E", "_", "T", "O", "X", "I", "C", "I", "T",
    "Y">>

s_IDENTITY_ATTACK ==
  <<"I", "D", "E", "N", "T", "I", "T", "Y", "_", "A", "T", "T", "A", "C",
    "K">>

s_INSULT ==
  <<"I", "N", "S", "U", "L", "T">>

s_PROFANITY ==
  <<"P", "R", "O", "F", "A", "N", "I", "T", "Y">>

s_THREAT ==
  <<"T", "H", "R", "E", "A", "T">>

s_SEXUALLY_EXPLICIT ==
  <<"S", "E", "X", "U", "A", "L", "L", "Y", "_", "E", "X", "P", "L", "I",
    "C", "I", "T">>

s_ATTACK_ON_AUTHOR ==
  <<"A", "T", "T", "A", "C", "K", "_", "O", "N", "_", "A", "U", "T", "H",
    "O", "R">>

s_ATTACK_ON_COMMENTER ==
  <<"A", "T", "T", "A", "C", "K", "_", "O", "N", "_", "C", "O", "M", "M",
    "E", "N", "T", "E", "R">>

s_INCOHERENT ==
  <<"I", "N", "C", "O", "H", "E", "R", "E", "N", "T">>

s_INFLAMMATORY ==
  <<"I", "N", "F", "L", "A", "M", "M", "A", "T", "O", "R", "Y">>

s_LIKELY_TO_REJECT ==
  <<"L", "I", "K", "E", "L", "Y", "_", "T", "O", "_", "R", "E", "J", "E",
    "C", "T">>

s_OBSCENE ==
  <<"O", "B", "S", "C", "E", "N", "E">>

s_SPAM ==
  <<"S", "P", "A", "M">>

s_UNSUBSTANTIAL ==
  <<"U", "N", "S", "U", "B", "S", "T", "A", "N", "T", "I", "A", "L">>

s_BLAH_TOXICITY ==
  <<"B", "L", "A", "H", "_", "T", "O", "X", "I", "C", "I", "T", "Y">>

s_e1 ==
  <<"e", "1">>

s_e2 ==
  <<"e", "2">>

s_hi ==
  <<"h", "i">>

\* config.py: AVAILABLE_API_MODELS.
AVAILABLE_API_MODELS ==
  {s_TOXICITY,
   s_SEVERE_TOXICITY,
   s_IDENTITY_ATTACK,
   s_INSULT,
   s_PROFANITY,
   s_THREAT,
   s_SEXUALLY_EXPLICIT,
   s_ATTACK_ON_AUTHOR,
   s_ATTACK_ON_COMMENTER,
   s_INCOHERENT,
   s_INFLAMMATORY,
   s_LIKELY_TO_REJECT,
   s_OBSCENE,
   s_SPAM,
   s_UNSUBSTANTIAL}

\* ---------------------------------------------------------- Rule.__init__
s_report ==
  <<"r", "e", "p", "o", "r", "t">>

s_noop ==
  <<"n", "o", "o", "p">>

s_remove ==
  <<"r", "e", "m", "o", "v", "e">>

REPORT_ACTION == s_report

NOOP_ACTION == s_noop

s_triggered ==
  <<"P", "e", "r", "s", "p", "e", "c", "t", "i", "v", "e", " ", "B", "o",
    "t", " ", "r", "u", "l", "e", " ", "t", "r", "i", "g", "g", "e", "r",
    "e", "d", ":", " ">>

\* rule_strings: '%s %s' % (k, v) for the items of model_rules.
rule_strings(model_rules) ==
  [k \in DOMAIN model_rules |-> model_rules[k][1] \o <<" ">> \o model_rules[k][2]]

\* Rule without the check of action_name against the supported actions.
Rule_any_action(name, model_rules, comment_feature_rules, action_name, report_reason) ==
  IF model_rules = <<>>
    THEN Raise("ValueError")
    ELSE IF action_name = NoText
           THEN Raise("ValueError")
           ELSE Return(
                  [name |-> IF name = NoText
                              THEN join(<<"_", "_">>, sorted(keys(model_rules)))
                              ELSE name,
                   model_rules |-> model_rules,
                   comment_feature_rules |-> comment_feature_rules,
                   action_name |-> action_name,
                   report_reason |-> report_reason,
                   rule_description |-> report_reason])

\* Rule(name, model_rules, comment_feature_rules, action_name,
\* report_reason): the object built, or the exception raised.
Rule(name, model_rules, comment_feature_rules, action_name, report_reason) ==
  IF model_rules = <<>>
    THEN Raise("ValueError")
    ELSE IF action_name = NoText
           THEN Raise("ValueError")
           ELSE IF action_name \notin {REPORT_ACTION, NOOP_ACTION}
                  THEN Raise("ValueError")
                  ELSE LET self_name ==
                             IF name = NoText
                               THEN join(<<"_", "_">>, sorted(keys(model_rules)))
                               ELSE name
                       IN Return(
                            [name |-> self_name,
                             model_rules |-> model_rules,
                             comment_feature_rules |-> comment_feature_rules,
                             action_name |-> action_name,
                             report_reason |-> report_reason,
                             rule_description |->
                               IF report_reason # NoText
                                 THEN report_reason
                                 ELSE s_triggered \o self_name \o <<":", " ">>
                                        \o join(<<" ", "&", " ">>,
                                                rule_strings(model_rules))])

\* ------------------------------------------------------------------ config
\* _has_duplicates(xs).
_has_duplicates(xs) == Len(xs) # Cardinality(set(xs))

\* _duplicate_items(xs): the body reads the name 'items', which is bound
\* nowhere in config.py, so every call raises.
_duplicate_items(xs) == Raise("NameError")

\* The loop of load_rules from its i-th record on: the outcome of the
\* first construction that raises, or the rules and models built.
RECURSIVE load_rules_loop(_, _, _, _)
load_rules_loop(rules_config, i, rules, models) ==
  IF i > Len(rules_config)
    THEN Return(<<rules, models>>)
    ELSE LET r == rules_config[i]
         IN IF "perspective_score" \notin DOMAIN r \/ "action" \notin DOMAIN r
              THEN Raise("KeyError")
              ELSE LET rule == Rule(get(r, "name", NoText),
                                    r.perspective_score,
                                    get(r, "comment_features", <<>>),
                                    r.action,
                                    get(r, "report_reason", NoText))
                   IN IF rule.raised # None
                        THEN rule
                        ELSE load_rules_loop(rules_config, i + 1,
                                             Append(rules, rule.value),
                                             models \cup keys(r.perspective_score))

\* config.load_rules: (rules, models), or the exception raised.
load_rules(rules_config) ==
  LET built == load_rules_loop(rules_config, 1, <<>>, {})
  IN IF built.raised # None
       THEN built
       ELSE LET rules == built.value[1]
                rule_names == [k \in DOMAIN rules |-> rules[k].name]
            IN IF ~(Len(rules) > 0)
                 THEN Raise("AssertionError")
                 ELSE IF _has_duplicates(rule_names)
                        THEN IF _duplicate_items(rule_names).raised # None
                               THEN _duplicate_items(rule_names)
                               ELSE Raise("ValueError")
                        ELSE built

\* LrEnsemble(name, feature_weights, intercept_weight).
LrEnsemble(name, feature_weights, intercept_weight) ==
  [name |-> name,
   _feature_col_names |-> [k \in DOMAIN feature_weights |-> feature_weights[k][1]],
   coef_ |-> [k \in DOMAIN feature_weights |-> feature_weights[k][2]],
   intercept_ |-> intercept_weight]

\* The loop of load_ensembles from its i-th record on.
RECURSIVE load_ensembles_loop(_, _, _, _)
load_ensembles_loop(ensembles_config, i, ensembles, api_models) ==
  IF i > Len(ensembles_config)
    THEN Return(<<ensembles, api_models>>)
    ELSE LET e == ensembles_config[i]
         IN IF {"name", "feature_weights", "intercept_weight"} \subseteq DOMAIN e
              THEN load_ensembles_loop(
                     ensembles_config, i + 1,
                     Append(ensembles,
                            LrEnsemble(e.name, e.feature_weights,
                                       e.intercept_weight)),
                     api_models \cup keys(e.feature_weights))
              ELSE Raise("KeyError")

\* config.load_ensembles: (ensembles, api_models), or the exception raised.
load_ensembles(ensembles_config) ==
  LET built == load_ensembles_loop(ensembles_config, 1, <<>>, {})
  IN IF built.raised # None
       THEN built
       ELSE LET ensembles == built.value[1]
                ensemble_names == [k \in DOMAIN ensembles |-> ensembles[k].name]
                ensembles_with_api_model_names ==
                  SelectSeq(ensemble_names, LAMBDA e : e \in AVAILABLE_API_MODELS)
            IN IF _has_duplicates(ensemble_names)
                 THEN Raise("ValueError")
                 ELSE IF ensembles_with_api_model_names # <<>>
                        THEN Raise("ValueError")
                        ELSE built

\* A union that keeps only its argument.
union_argument(self, other) == other

\* set.union.
union(self, other) == self \cup other

\* parse_config without the check of the API models against the available
\* ones.
parse_config_unchecked(config) ==
  LET loaded_ensembles ==
        IF "ensembles" \in DOMAIN config
          THEN load_ensembles(config.ensembles)
          ELSE Return(<<<<>>, {}>>)
  IN IF loaded_ensembles.raised # None
       THEN loaded_ensembles
       ELSE IF "rules" \notin DOMAIN config
              THEN Raise("KeyError")
              ELSE LET loaded_rules == load_rules(config.rules)
                   IN IF loaded_rules.raised # None
                        THEN loaded_rules
                        ELSE LET ensembles == loaded_ensembles.value[1]
                                 api_models_for_ensembles == loaded_ensembles.value[2]
                                 rules == loaded_rules.value[1]
                                 models_for_rules == loaded_rules.value[2]
                                 ensemble_names ==
                                   {ensembles[k].name : k \in DOMAIN ensembles}
                                 api_models_for_rules ==
                                   {model \in models_for_rules :
                                      model \notin ensemble_names}
                                 api_models ==
                                   union(api_models_for_ensembles,
                                         api_models_for_rules)
                             IN Return(<<rules, api_models, ensembles>>)

\* config.parse_config on the dict read from the file: (rules, api_models,
\* ensembles), or the exception raised.
parse_config(config) ==
  LET loaded_ensembles ==
        IF "ensembles" \in DOMAIN config
          THEN load_ensembles(config.ensembles)
          ELSE Return(<<<<>>, {}>>)
  IN IF loaded_ensembles.raised # None
       THEN loaded_ensembles
       ELSE IF "rules" \notin DOMAIN config
              THEN Raise("KeyError")
              ELSE LET loaded_rules == load_rules(config.rules)
                   IN IF loaded_rules.raised # None
                        THEN loaded_rules
                        ELSE LET ensembles == loaded_ensembles.value[1]
                                 api_models_for_ensembles == loaded_ensembles.value[2]
                                 rules == loaded_rules.value[1]
                                 models_for_rules == loaded_rules.value[2]
                                 ensemble_names ==
                                   {ensembles[k].name : k \in DOMAIN ensembles}
                                 api_models_for_rules ==
                                   {model \in models_for_rules :
                                      model \notin ensemble_names}
                                 api_models ==
                                   union(api_models_for_ensembles,
                                         api_models_for_rules)
                                 bad_api_models == api_models \ AVAILABLE_API_MODELS
                             IN IF bad_api_models # {}
                                  THEN Raise("ValueError")
                                  ELSE Return(<<rules, api_models, ensembles>>)

\* Longest list of rules and of ensembles in a configuration.
MaxConf == 2

\* The lists of at most n elements of S.
Lists(S, n) == UNION {[1..k -> S] : k \in 0..n}

\* 'comparator threshold' as written in a configuration.
comparison_str(comparator, threshold) == comparator \o <<" ">> \o threshold

gt_05 == comparison_str(<<">">>, <<"0", ".", "5">>)

gt_09 == comparison_str(<<">">>, <<"0", ".", "9">>)

lt_09 == comparison_str(<<"<">>, <<"0", ".", "9">>)

ge_05 == comparison_str(<<">", "=">>, <<"0", ".", "5">>)

\* The rule records of the configurations studied: well-formed ones with
\* and without a name, with equal explicit and derived names, and ones
\* with a comparator outside '>' and '<', no predicate, an unsupported or
\* empty action, a missing key, an ensemble or an unknown model.
RuleRecords ==
  {[perspective_score |-> <<<<s_TOXICITY, gt_05>>>>, action |-> s_report],
   [perspective_score |-> <<<<s_TOXICITY, gt_09>>>>, action |-> s_noop],
   [name |-> s_hi, perspective_score |-> <<<<s_TOXICITY, gt_05>>>>,
    action |-> s_report],
   [name |-> s_hi, perspective_score |-> <<<<s_THREAT, lt_09>>>>,
    action |-> s_noop],
   [perspective_score |-> <<<<s_TOXICITY, gt_05>>, <<s_THREAT, gt_09>>>>,
    action |-> s_noop],
   [perspective_score |-> <<<<s_THREAT, gt_05>>, <<s_TOXICITY, gt_09>>>>,
    action |-> s_report],
   [name |-> s_TOXICITY, perspective_score |-> <<<<s_THREAT, gt_05>>>>,
    action |-> s_report],
   [perspective_score |-> <<<<s_TOXICITY, ge_05>>>>, action |-> s_report],
   [perspective_score |-> <<>>, action |-> s_report],
   [perspective_score |-> <<<<s_TOXICITY, gt_05>>>>, action |-> s_remove],
   [perspective_score |-> <<<<s_TOXICITY, gt_05>>>>, action |-> NoText],
   [perspective_score |-> <<<<s_TOXICITY, gt_05>>>>],
   [action |-> s_noop],
   [perspective_score |-> <<<<s_SPAM, gt_05>>>>, action |-> s_report,
    comment_features |-> [toplevel_only |-> TRUE],
    report_reason |-> <<"s", "p", "a", "m">>],
   [perspective_score |-> <<<<s_e1, gt_05>>>>, action |-> s_noop],
   [perspective_score |-> <<<<s_BLAH_TOXICITY, gt_05>>>>, action |-> s_report]}

\* The ensemble records studied: two well-formed ones, a second e1, one
\* named as an API model, one fed by another ensemble, one fed by an
\* unknown model and one without a name.
EnsembleRecords ==
  {[name |-> s_e1, feature_weights |-> <<<<s_TOXICITY, 1>>, <<s_THREAT, 2>>>>,
    intercept_weight |-> -1],
   [name |-> s_e2, feature_weights |-> <<<<s_TOXICITY, 10>>>>,
    intercept_weight |-> -10],
   [name |-> s_e1, feature_weights |-> <<<<s_SPAM, 1>>>>, intercept_weight |-> 0],
   [name |-> s_TOXICITY, feature_weights |-> <<<<s_THREAT, 1>>>>,
    intercept_weight |-> -1],
   [name |-> s_e2, feature_weights |-> <<<<s_e1, 1>>>>, intercept_weight |-> 0],
   [name |-> s_e1, feature_weights |-> <<<<s_BLAH_TOXICITY, 1>>>>,
    intercept_weight |-> 0],
   [feature_weights |-> <<<<s_TOXICITY, 1>>>>, intercept_weight |-> 0]}

\* load_rules is called on arg.rules_config.
LoadRules ==
  /\ pc = "call"
  /\ "rules_config" \in DOMAIN arg
  /\ ret' = load_rules(arg.rules_config)
  /\ pc' = IF load_rules(arg.rules_config).raised = None
             THEN "returned" ELSE "raised"
  /\ UNCHANGED <<env, ids_to_skip, pos, skipped, last_time, last_yield_time,
                 current_batch, oldest_read, lines_exited, records, wake_at,
                 emitted, waited, first_fed, seek_len, has_mod_creds,
                 statuses, comments_by_id, response, warned, leftover, arg>>
  /\ UNCHANGED <<bot, _LAST_QUOTA_ERROR, tools>>

\* load_ensembles is called on arg.ensembles_config.
LoadEnsembles ==
  /\ pc = "call"
  /\ "ensembles_config" \in DOMAIN arg
  /\ ret' = load_ensembles(arg.ensembles_config)
  /\ pc' = IF load_ensembles(arg.ensembles_config).raised = None
             THEN "returned" ELSE "raised"
  /\ UNCHANGED <<env, ids_to_skip, pos, skipped, last_time, last_yield_time,
                 current_batch, oldest_read, lines_exited, records, wake_at,
                 emitted, waited, first_fed, seek_len, has_mod_creds,
                 statuses, comments_by_id, response, warned, leftover, arg>>
  /\ UNCHANGED <<bot, _LAST_QUOTA_ERROR, tools>>

InitLoad ==
  /\ InitCall
  /\ arg \in [rules_config : Lists(RuleRecords, MaxConf)]
               \cup [ensembles_config : Lists(EnsembleRecords, MaxConf)]

NextLoad ==
  \/ LoadRules
  \/ LoadEnsembles

SpecLoad == InitLoad /\ [][NextLoad]_vars

\* The rule records of the configurations parse_config is studied on: on an
\* API model, on two, on an ensemble, on an unknown model, and one without
\* action.
ConfigRuleRecords ==
  {[perspective_score |-> <<<<s_TOXICITY, gt_05>>>>, action |-> s_report],
   [perspective_score |-> <<<<s_TOXICITY, gt_05>>, <<s_THREAT, gt_09>>>>,
    action |-> s_noop],
   [perspective_score |-> <<<<s_SPAM, gt_05>>>>, action |-> s_report,
    comment_features |-> [toplevel_only |-> TRUE],
    report_reason |-> <<"s", "p", "a", "m">>],
   [perspective_score |-> <<<<s_e1, gt_05>>>>, action |-> s_noop],
   [perspective_score |-> <<<<s_BLAH_TOXICITY, gt_05>>>>, action |-> s_report],
   [perspective_score |-> <<<<s_TOXICITY, gt_05>>>>]}

\* The dicts yaml.load gives: rules, with or without ensembles.
Configs ==
  [rules : Lists(ConfigRuleRecords, MaxConf)]
    \cup [rules : Lists(ConfigRuleRecords, MaxConf),
          ensembles : Lists(EnsembleRecords, MaxConf)]

\* parse_config is called on the configuration arg.
ParseConfig ==
  /\ pc = "call"
  /\ ret' = parse_config(arg)
  /\ pc' = IF parse_config(arg).raised = None THEN "returned" ELSE "raised"
  /\ UNCHANGED <<env, ids_to_skip, pos, skipped, last_time, last_yield_time,
                 current_batch, oldest_read, lines_exited, records, wake_at,
                 emitted, waited, first_fed, seek_len, has_mod_creds,
                 statuses, comments_by_id, response, warned, leftover, arg>>
  /\ UNCHANGED <<bot, _LAST_QUOTA_ERROR, tools>>

InitConfig ==
  /\ InitCall
  /\ arg \in Configs

NextConfig == ParseConfig

SpecConfig == InitConfig /\ [][NextConfig]_vars

\* ------------------------------------------------------------ apply_action
\* apply_action(action_name, comment, descriptions): the exception raised,
\* if any, and the texts passed to comment.report.  The last branch formats
\* its message with self.action_name, and no name self exists there.
apply_action_cut_100(action_name, comment, descriptions) ==
  LET joined == join(<<",", " ">>, descriptions)
      all_reasons == IF Len(joined) > 100
                       THEN SubSeq(joined, 1, 100) \o <<".", ".", ".">>
                       ELSE joined
  IN IF action_name = s_report
       THEN [raised |-> IF comment.report_raises THEN "APIException" ELSE None,
             reported |-> <<all_reasons>>]
       ELSE IF action_name = s_noop
              THEN [raised |-> None, reported |-> <<>>]
              ELSE [raised |-> "NameError", reported |-> <<>>]

apply_action(action_name, comment, descriptions) ==
  LET joined == join(<<",", " ">>, descriptions)
      all_reasons == IF Len(joined) > 100
                       THEN SubSeq(joined, 1, 97) \o <<".", ".", ".">>
                       ELSE joined
  IN IF action_name = s_report
       THEN [raised |-> IF comment.report_raises THEN "APIException" ELSE None,
             reported |-> <<all_reasons>>]
       ELSE IF action_name = s_noop
              THEN [raised |-> None, reported |-> <<>>]
              ELSE [raised |-> "NameError", reported |-> <<>>]

\* The number of reasons of one call.
MaxReasons == 2

\* The lengths of the reasons: short ones, and ones that bring one reason or
\* two joined reasons to 97, 100 and 101 characters and beyond.
ReasonLens == {1, 48, 49, 50, 97, 99, 100, 101, 150}

\* n times the character c.
repeat(c, n) == [k \in 1..n |-> c]

Reasons == {repeat(c, n) : c \in {"a", "b"}, n \in ReasonLens}

ApplyAction ==
  /\ pc = "call"
  /\ "descriptions" \in DOMAIN arg
  /\ ret' = apply_action(arg.action_name, arg.comment, arg.descriptions)
  /\ pc' = IF apply_action(arg.action_name, arg.comment,
                           arg.descriptions).raised = None
             THEN "returned" ELSE "raised"
  /\ UNCHANGED <<env, ids_to_skip, pos, skipped, last_time, last_yield_time,
                 current_batch, oldest_read, lines_exited, records, wake_at,
                 emitted, waited, first_fed, seek_len, has_mod_creds,
                 statuses, comments_by_id, response, warned, leftover, arg>>
  /\ UNCHANGED <<bot, _LAST_QUOTA_ERROR, tools>>

InitAction ==
  /\ InitCall
  /\ arg \in [action_name : {s_report, s_noop, s_remove},
               comment : [report_raises : BOOLEAN],
               descriptions : Lists(Reasons, MaxReasons)]

NextAction == ApplyAction

SpecAction == InitAction /\ [][NextAction]_vars

\* ------------------------------------------------------ moderate_subreddit
\* The keys of a record written by append_comment_data, and rule names.
s_comment_id ==
  <<"c", "o", "m", "m", "e", "n", "t", "_", "i", "d">>

s_link_id ==
  <<"l", "i", "n", "k", "_", "i", "d">>

s_parent_id ==
  <<"p", "a", "r", "e", "n", "t", "_", "i", "d">>

s_orig_comment_text ==
  <<"o", "r", "i", "g", "_", "c", "o", "m", "m", "e", "n", "t", "_", "t",
    "e", "x", "t">>

s_created_utc ==
  <<"c", "r", "e", "a", "t", "e", "d", "_", "u", "t", "c">>

s_permalink ==
  <<"p", "e", "r", "m", "a", "l", "i", "n", "k">>

s_author ==
  <<"a", "u", "t", "h", "o", "r">>

s_bot_scored_utc ==
  <<"b", "o", "t", "_", "s", "c", "o", "r", "e", "d", "_", "u", "t", "c">>

s_scored_comment_text ==
  <<"s", "c", "o", "r", "e", "d", "_", "c", "o", "m", "m", "e", "n", "t",
    "_", "t", "e", "x", "t">>

s_hi_tox ==
  <<"h", "i", "_", "t", "o", "x">>

s_lo_tox ==
  <<"l", "o", "_", "t", "o", "x">>

\* Comments taken from the stream in one run.
MaxComments == 2

\* Comments a run has behind it when it is looked at late: the comment
\* after them is the last one before the first check of line 268.
Before == 99

\* A comment body is held as its lines: for each line whether it begins
\* with '>' and how many characters it has (none of them a blank).
Line(quote, n) == [quote |-> quote, n |-> n]

\* len(text).
RECURSIVE line_chars(_)
line_chars(lines) ==
  IF lines = <<>> THEN 0 ELSE Head(lines).n + line_chars(Tail(lines))

len(text) == line_chars(text) + Len(text) - 1

\* str.strip() on joined lines: the empty lines at both ends go.
RECURSIVE lstrip(_)
lstrip(lines) ==
  IF lines # <<>> /\ Head(lines).n = 0 THEN lstrip(Tail(lines)) ELSE lines

RECURSIVE rstrip(_)
rstrip(lines) ==
  IF lines # <<>> /\ lines[Len(lines)].n = 0
    THEN rstrip(SubSeq(lines, 1, Len(lines) - 1))
    ELSE lines

\* remove_quotes(text).
remove_quotes(text) ==
  LET nonquote_lines == SelectSeq(text, LAMBDA l : ~l.quote)
      text_with_no_quotes == rstrip(lstrip(nonquote_lines))
  IN IF text_with_no_quotes = <<>> THEN text ELSE text_with_no_quotes

\* timestamp_string and the strftime of bot_scored_utc.
timestamp_string(timestamp) == datetime_timestamp(timestamp)

\* What perspective.score_text can do for the requested models: return a
\* score for some or all of them, return None on a non-ok status, or raise.
NoScores == [is_none |-> TRUE]

ScoreDict(d) == [is_none |-> FALSE, dict |-> d]

ScorerOutcomes(api_models) ==
  {Return(ScoreDict(d)) : d \in UNION {[D -> {2, 9}] : D \in SUBSET api_models}}
    \cup {Return(NoScores), Raise("ConnectionError")}

\* The loop over the ensembles that puts no score into the dict.
predict_all_unstored(ensembles, k, d, values) == Return(ScoreDict(d))

\* The loop 'for e in ensembles: scores[e.name] = e.predict_one(scores)'
\* from the k-th ensemble on; predict_one selects the feature columns and
\* raises when one is missing; values[k] is the score it computes.
RECURSIVE predict_all(_, _, _, _)
predict_all(ensembles, k, d, values) ==
  IF k > Len(ensembles)
    THEN Return(ScoreDict(d))
    ELSE IF set(ensembles[k]._feature_col_names) \subseteq DOMAIN d
           THEN predict_all(
                  ensembles, k + 1,
                  [model \in DOMAIN d \cup {ensembles[k].name} |->
                     IF model = ensembles[k].name THEN values[k] ELSE d[model]],
                  values)
           ELSE Raise("KeyError")

\* The loop of check_rules from the k-th rule on: action_dict, a dict from
\* action names to the descriptions of the rules that fired.
RECURSIVE check_rules_loop(_, _, _, _, _)
check_rules_loop(rules, k, comment, d, actions) ==
  IF k > Len(rules)
    THEN Return(actions)
    ELSE LET fired == check_model_rules(rules[k], d, comment)
             action_name == rules[k].action_name
         IN IF fired.raised # None
              THEN fired
              ELSE check_rules_loop(
                     rules, k + 1, comment, d,
                     IF fired.value
                       THEN [a \in DOMAIN actions \cup {action_name} |->
                               IF a \in DOMAIN actions /\ a # action_name
                                 THEN actions[a]
                                 ELSE IF a \in DOMAIN actions
                                        THEN Append(actions[a],
                                                    rules[k].rule_description)
                                        ELSE <<rules[k].rule_description>>]
                       ELSE actions)

check_rules(index, comment, rules, d) ==
  check_rules_loop(rules, 1, comment, d, <<>>)

\* The loop 'for action, rule_strings in action_dict.items()' over the
\* items in the order given: the exception that ends it, if any, and the
\* texts passed to comment.report.
RECURSIVE apply_actions(_, _, _)
apply_actions(items, comment, actions) ==
  IF items = <<>>
    THEN [raised |-> None, reported |-> <<>>]
    ELSE LET first == apply_action(Head(items), comment, actions[Head(items)])
             rest == apply_actions(Tail(items), comment, actions)
         IN IF first.raised # None
              THEN first
              ELSE [raised |-> rest.raised,
                    reported |-> first.reported \o rest.reported]

\* The orders in which a dict with the keys S can give its items.
Orders(S) ==
  {o \in [1..Cardinality(S) -> S] : \A j, k \in DOMAIN o : j # k => o[j] # o[k]}

\* The record append_comment_data writes: a dict from keys to values.
comment_record(comment, text, actions, d) ==
  LET record ==
        (s_comment_id :> comment.id) @@ (s_link_id :> comment.link_id)
          @@ (s_parent_id :> comment.parent_id)
          @@ (s_orig_comment_text :> comment.body)
          @@ (s_created_utc :> timestamp_string(comment.created_utc))
          @@ (s_permalink :> comment.permalink)
          @@ (s_author :> comment.author)
          @@ (s_bot_scored_utc :> timestamp_string(now))
      with_text == IF comment.body # text
                     THEN (s_scored_comment_text :> text) @@ record
                     ELSE record
  IN d @@ (actions @@ with_text)

gt_01 == comparison_str(<<">">>, <<"0", ".", "1">>)

\* The rules of the runs studied, as Rule constructs them.
hi_tox ==
  Rule(s_hi_tox, <<<<s_TOXICITY, gt_05>>>>, <<>>, s_report, NoText).value

lo_tox ==
  Rule(s_lo_tox, <<<<s_TOXICITY, gt_01>>>>, <<>>, s_noop, NoText).value

e1_rule ==
  Rule(NoText, <<<<s_e1, gt_05>>>>, <<>>, s_report, NoText).value

e1_ensemble == LrEnsemble(s_e1, <<<<s_TOXICITY, 1>>>>, -1)

\* The arguments of score_subreddit: the rules of
\* test_create_mod_comment_output_record_more_rules without ensembles, and
\* a rule on an ensemble beside a rule on an API model.
BotArgs ==
  {[rules |-> c.rules, api_models |-> {s_TOXICITY}, ensembles |-> c.ensembles,
    should_remove_quotes |-> q, output_dir |-> o] :
     c \in {[rules |-> <<hi_tox, lo_tox>>, ensembles |-> <<>>],
            [rules |-> <<e1_rule, hi_tox>>, ensembles |-> <<e1_ensemble>>]},
     q \in BOOLEAN, o \in {None, "output_dir"}}

hello == <<Line(FALSE, 5)>>

\* The comments of the stream: short ones by a user and by a deleted
\* author, one whose report call fails, one with a quoted line, and long
\* ones at and beyond the bound of score_comment, with and without quote.
BotComments ==
  {[id |-> 0, link_id |-> "lid", parent_id |-> "pid", body |-> c.body,
    author |-> c.author, report_raises |-> c.report_raises,
    created_utc |-> 0, permalink |-> "r/SubReddit/blahblah"] :
     c \in {[body |-> hello, author |-> "username", report_raises |-> FALSE],
            [body |-> hello, author |-> None, report_raises |-> FALSE],
            [body |-> hello, author |-> "username", report_raises |-> TRUE],
            [body |-> <<Line(TRUE, 4), Line(FALSE, 5)>>, author |-> "username",
             report_raises |-> FALSE],
            [body |-> <<Line(FALSE, 20000)>>, author |-> "username",
             report_raises |-> FALSE],
            [body |-> <<Line(FALSE, 20001)>>, author |-> "username",
             report_raises |-> FALSE],
            [body |-> <<Line(TRUE, 3), Line(FALSE, 20000)>>,
             author |-> "username", report_raises |-> FALSE]}}

\* The index i of the comment of this iteration.
this_i == loop_i - 1

\* The test of score_comment that makes it return None, None.
too_long_from_bound(text) == len(text) >= 20000

too_long(text) == len(text) > 20000

\* Where control goes when the body of the loop raises: the except clause
\* prints and the for statement takes the next comment.
except_Exception_reraised == "crashed"

except_Exception == "stream"

\* The test of score_subreddit before the actions are applied, with the
\* startup check left out.
has_mod_permissions_recent(recent, initial) == recent

has_mod_permissions(recent, initial) == recent /\ initial

\* The stream gives the next comment, as long as fewer than last comments
\* were taken; every 100 comments the bot checks that it is still a
\* moderator (bot_is_mod answers False when it fails).
TakeComment(last) ==
  /\ pc = "stream"
  /\ loop_i < last
  /\ \E c \in BotComments, is_mod \in BOOLEAN :
       /\ loop_comment' = [c EXCEPT !.id = loop_i]
       /\ recent_mod_permissions' =
            IF loop_i % 100 = 0 /\ loop_i > 0
              THEN is_mod
              ELSE recent_mod_permissions
  /\ loop_i' = loop_i + 1
  /\ comment_for_scoring' = <<>>
  /\ scores' = <<>>
  /\ action_dict' = <<>>
  /\ events' = <<>>
  /\ pc' = "score"
  /\ UNCHANGED <<initial_mod_permissions, reports, mod_log>>
  /\ UNCHANGED <<env, ids_to_skip, pos, skipped, last_time, last_yield_time,
                 current_batch, oldest_read, lines_exited, records, wake_at,
                 emitted, waited, first_fed, seek_len, has_mod_creds,
                 statuses, comments_by_id, response, warned, leftover, arg,
                 ret, _LAST_QUOTA_ERROR, tools>>

NextComment == TakeComment(MaxComments)

\* The same in a run that has taken Before comments already.
LaterComment == TakeComment(Before + MaxComments)

\* The stream itself raises: the for statement is outside the try.
StreamRaises ==
  /\ pc = "stream"
  /\ pc' = "crashed"
  /\ UNCHANGED <<bot, _LAST_QUOTA_ERROR, tools>>
  /\ UNCHANGED <<env, ids_to_skip, pos, skipped, last_time, last_yield_time,
                 current_batch, oldest_read, lines_exited, records, wake_at,
                 emitted, waited, first_fed, seek_len, has_mod_creds,
                 statuses, comments_by_id, response, warned, leftover, arg,
                 ret, _LAST_QUOTA_ERROR, tools>>

\* score_comment and the test 'if scores is None: continue'.
ScoreComment ==
  /\ pc = "score"
  /\ LET initial_comment == loop_comment.body
         text == IF arg.should_remove_quotes
                   THEN remove_quotes(initial_comment)
                   ELSE initial_comment
     IN IF too_long(text)
          THEN /\ comment_for_scoring' = <<>>
               /\ scores' = NoScores
               /\ events' = Append(events, "too long")
               /\ pc' = "stream"
          ELSE \E scored \in ScorerOutcomes(arg.api_models),
                  values \in [DOMAIN arg.ensembles -> {2, 9}] :
                 LET predicted ==
                       IF scored.raised # None
                         THEN scored
                         ELSE IF arg.ensembles = <<>>
                                THEN scored
                                ELSE IF scored.value.is_none
                                       THEN Raise("TypeError")
                                       ELSE predict_all(arg.ensembles, 1,
                                                        scored.value.dict, values)
                 IN IF predicted.raised # None
                      THEN /\ events' = events \o <<"score_text", "exception">>
                           /\ pc' = except_Exception
                           /\ UNCHANGED <<comment_for_scoring, scores>>
                      ELSE /\ comment_for_scoring' = text
                           /\ scores' = predicted.value
                           /\ IF predicted.value.is_none
                                THEN /\ events' = events \o <<"score_text", "no scores">>
                                     /\ pc' = "stream"
                                ELSE /\ events' = events \o <<"score_text", "ensembles">>
                                     /\ pc' = "rules"
  /\ UNCHANGED <<loop_i, loop_comment, action_dict, initial_mod_permissions,
                 recent_mod_permissions, reports, mod_log>>
  /\ UNCHANGED <<env, ids_to_skip, pos, skipped, last_time, last_yield_time,
                 current_batch, oldest_read, lines_exited, records, wake_at,
                 emitted, waited, first_fed, seek_len, has_mod_creds,
                 statuses, comments_by_id, response, warned, leftover, arg,
                 ret, _LAST_QUOTA_ERROR, tools>>

\* action_dict = check_rules(i, comment, rules, scores).
CheckRules ==
  /\ pc = "rules"
  /\ LET checked == check_rules(this_i, loop_comment, arg.rules, scores.dict)
     IN IF checked.raised # None
          THEN /\ events' = Append(events, "exception")
               /\ pc' = except_Exception
               /\ UNCHANGED action_dict
          ELSE /\ action_dict' = checked.value
               /\ events' = Append(events, "check_rules")
               /\ pc' = "apply"
  /\ UNCHANGED <<loop_i, loop_comment, comment_for_scoring, scores,
                 initial_mod_permissions, recent_mod_permissions, reports,
                 mod_log>>
  /\ UNCHANGED <<env, ids_to_skip, pos, skipped, last_time, last_yield_time,
                 current_batch, oldest_read, lines_exited, records, wake_at,
                 emitted, waited, first_fed, seek_len, has_mod_creds,
                 statuses, comments_by_id, response, warned, leftover, arg,
                 ret, _LAST_QUOTA_ERROR, tools>>

\* With both permissions, apply_action for every item of action_dict.
ApplyActions ==
  /\ pc = "apply"
  /\ IF has_mod_permissions(recent_mod_permissions, initial_mod_permissions)
       THEN \E items \in Orders(DOMAIN action_dict) :
              LET applied == apply_actions(items, loop_comment, action_dict)
              IN /\ reports' =
                      reports \o [k \in DOMAIN applied.reported |->
                                    [i |-> this_i, text |-> applied.reported[k]]]
                 /\ IF applied.raised # None
                      THEN /\ events' = Append(events, "exception")
                           /\ pc' = except_Exception
                      ELSE /\ events' = Append(events, "apply_action")
                           /\ pc' = "log"
       ELSE /\ pc' = "log"
            /\ UNCHANGED <<reports, events>>
  /\ UNCHANGED <<loop_i, loop_comment, comment_for_scoring, scores,
                 action_dict, initial_mod_permissions, recent_mod_permissions,
                 mod_log>>
  /\ UNCHANGED <<env, ids_to_skip, pos, skipped, last_time, last_yield_time,
                 current_batch, oldest_read, lines_exited, records, wake_at,
                 emitted, waited, first_fed, seek_len, has_mod_creds,
                 statuses, comments_by_id, response, warned, leftover, arg,
                 ret, _LAST_QUOTA_ERROR, tools>>

\* With an output path, append_comment_data: the file is opened, the record
\* built (comment.author.name fails for a deleted author) and written.
AppendCommentData ==
  /\ pc = "log"
  /\ IF arg.output_dir = None
       THEN /\ pc' = "stream"
            /\ UNCHANGED <<mod_log, events>>
       ELSE \E write_fails \in BOOLEAN :
              IF write_fails \/ loop_comment.author = None
                THEN /\ events' = Append(events, "exception")
                     /\ pc' = except_Exception
                     /\ UNCHANGED mod_log
                ELSE /\ mod_log' =
                          Append(mod_log,
                                 comment_record(loop_comment, comment_for_scoring,
                                                action_dict, scores.dict))
                     /\ events' = Append(events, "append_comment_data")
                     /\ pc' = "stream"
  /\ UNCHANGED <<loop_i, loop_comment, comment_for_scoring, scores,
                 action_dict, initial_mod_permissions, recent_mod_permissions,
                 reports>>
  /\ UNCHANGED <<env, ids_to_skip, pos, skipped, last_time, last_yield_time,
                 current_batch, oldest_read, lines_exited, records, wake_at,
                 emitted, waited, first_fed, seek_len, has_mod_creds,
                 statuses, comments_by_id, response, warned, leftover, arg,
                 ret, _LAST_QUOTA_ERROR, tools>>

\* score_subreddit is about to take its first comment.
InitBot ==
  /\ PipelineAtRest
  /\ pc = "stream"
  /\ arg \in BotArgs
  /\ ret = <<>>
  /\ loop_i = 0
  /\ loop_comment = <<>>
  /\ comment_for_scoring = <<>>
  /\ scores = <<>>
  /\ action_dict = <<>>
  /\ initial_mod_permissions \in BOOLEAN
  /\ recent_mod_permissions = initial_mod_permissions
  /\ reports = <<>>
  /\ mod_log = <<>>
  /\ events = <<>>
  /\ _LAST_QUOTA_ERROR = <<>>
  /\ ToolsAtRest

NextBot ==
  \/ NextComment
  \/ StreamRaises
  \/ ScoreComment
  \/ CheckRules
  \/ ApplyActions
  \/ AppendCommentData

SpecBot == InitBot /\ [][NextBot]_vars

\* score_subreddit after Before comments none of which was scored (each was
\* too long): nothing was reported or written, and no check was made since
\* the one at startup.
InitRecheck ==
  /\ PipelineAtRest
  /\ pc = "stream"
  /\ arg \in BotArgs
  /\ ret = <<>>
  /\ loop_i = Before
  /\ loop_comment = <<>>
  /\ comment_for_scoring = <<>>
  /\ scores = <<>>
  /\ action_dict = <<>>
  /\ initial_mod_permissions \in BOOLEAN
  /\ recent_mod_permissions = initial_mod_permissions
  /\ reports = <<>>
  /\ mod_log = <<>>
  /\ events = <<>>
  /\ _LAST_QUOTA_ERROR = <<>>
  /\ ToolsAtRest

NextRecheck ==
  \/ LaterComment
  \/ StreamRaises
  \/ ScoreComment
  \/ CheckRules
  \/ ApplyActions
  \/ AppendCommentData

SpecRecheck == InitRecheck /\ [][NextRecheck]_vars

\* -------------------------------------------------------- perspective_client
_OUT_OF_QUOTA_STATUS == 429

_QUOTA_DELAY_SECS == 5

_QUOTA_ERROR_INTERVAL == 15

requests_codes_ok == 200

\* Requests one call of score_text may send.
MaxPosts == 6

\* The status codes the API answers with: ok, an error of the request (the
\* text is too long, the language unsupported) and out of quota.
StatusCodes == {requests_codes_ok, 400, _OUT_OF_QUOTA_STATUS}

\* Seconds a request can take.
PostSecs == {0, 1}

\* The requests sent so far by this call.
Posts == SelectSeq(events, LAMBDA ev : ev.op = "post")

\* What _post_request does with a response: return it, or sleep and retry.
after_response_once(response_, posts) ==
  IF response_.status_code # _OUT_OF_QUOTA_STATUS \/ posts > 1
    THEN "returned"
    ELSE "sleep"

after_response(response_, posts) ==
  IF response_.status_code # _OUT_OF_QUOTA_STATUS
    THEN "returned"
    ELSE "sleep"

\* One turn of the loop of _post_request up to time.sleep: the request is
\* sent (the session may raise once its own retries are used up); a response
\* that is not out of quota is returned; otherwise the message is printed
\* unless one was printed in the last _QUOTA_ERROR_INTERVAL seconds.
PostRequest ==
  /\ pc = "post"
  /\ \E secs \in PostSecs, raises \in BOOLEAN, status_code \in StatusCodes :
       /\ status_code = _OUT_OF_QUOTA_STATUS => Len(Posts) + 1 < MaxPosts
       /\ now' = now + secs
       /\ IF raises
            THEN /\ events' = Append(events, [op |-> "post", n |-> 0])
                 /\ ret' = Raise("ConnectionError")
                 /\ pc' = "raised"
                 /\ UNCHANGED _LAST_QUOTA_ERROR
            ELSE LET response_ == [status_code |-> status_code]
                     next == after_response(response_, Len(Posts) + 1)
                     sent == Append(events, [op |-> "post", n |-> status_code])
                     prints == \/ _LAST_QUOTA_ERROR = <<>>
                               \/ /\ _LAST_QUOTA_ERROR # <<>>
                                  /\ now' - _LAST_QUOTA_ERROR[1]
                                       > _QUOTA_ERROR_INTERVAL
                 IN /\ pc' = next
                    /\ IF next = "returned"
                         THEN /\ ret' = Return(response_)
                              /\ events' = sent
                              /\ UNCHANGED _LAST_QUOTA_ERROR
                         ELSE /\ ret' = ret
                              /\ IF prints
                                   THEN /\ events' =
                                             Append(sent, [op |-> "print",
                                                           n |-> status_code])
                                        /\ _LAST_QUOTA_ERROR' = <<now'>>
                                   ELSE /\ events' = sent
                                        /\ UNCHANGED _LAST_QUOTA_ERROR
  /\ UNCHANGED <<input, output, stop_at_eof, wait_delta, ids_to_skip, pos,
                 skipped, last_time, last_yield_time,
                 current_batch, oldest_read, lines_exited, records, wake_at,
                 emitted, waited, first_fed, seek_len, has_mod_creds,
                 statuses, comments_by_id, response, warned, leftover, arg>>
  /\ UNCHANGED <<loop_i, loop_comment, comment_for_scoring, scores,
                 action_dict, initial_mod_permissions, recent_mod_permissions,
                 reports, mod_log, tools>>

\* time.sleep(_QUOTA_DELAY_SECS), and back to the top of the loop.
QuotaSleep ==
  /\ pc = "sleep"
  /\ now' = now + _QUOTA_DELAY_SECS
  /\ events' = Append(events, [op |-> "sleep", n |-> _QUOTA_DELAY_SECS])
  /\ pc' = "post"
  /\ UNCHANGED <<input, output, stop_at_eof, wait_delta, ids_to_skip, pos,
                 skipped, last_time, last_yield_time,
                 current_batch, oldest_read, lines_exited, records, wake_at,
                 emitted, waited, first_fed, seek_len, has_mod_creds,
                 statuses, comments_by_id, response, warned, leftover, arg,
                 ret, _LAST_QUOTA_ERROR, tools>>
  /\ UNCHANGED <<loop_i, loop_comment, comment_for_scoring, scores,
                 action_dict, initial_mod_permissions, recent_mod_permissions,
                 reports, mod_log>>

\* score_text with the response of _post_request: the scores when it is ok;
\* otherwise the error is printed, and raised when raise_on_error is set.
ScoreText ==
  /\ pc = "returned"
  /\ LET response_ == ret.value
     IN IF response_.status_code = requests_codes_ok
          THEN /\ ret' = Return("scores")
               /\ events' = events
               /\ pc' = "scored"
          ELSE /\ events' = Append(events, [op |-> "ERROR",
                                            n |-> response_.status_code])
               /\ IF arg.raise_on_error
                    THEN /\ ret' = Raise("HTTPError")
                         /\ pc' = "raised"
                    ELSE /\ ret' = Return(None)
                         /\ pc' = "scored"
  /\ UNCHANGED <<env, ids_to_skip, pos, skipped, last_time, last_yield_time,
                 current_batch, oldest_read, lines_exited, records, wake_at,
                 emitted, waited, first_fed, seek_len, has_mod_creds,
                 statuses, comments_by_id, response, warned, leftover, arg,
                 _LAST_QUOTA_ERROR, tools>>
  /\ UNCHANGED <<loop_i, loop_comment, comment_for_scoring, scores,
                 action_dict, initial_mod_permissions, recent_mod_permissions,
                 reports, mod_log>>

\* score_text has built its request and calls _post_request; no
\* out-of-quota message was printed since the module was loaded.
InitPost ==
  /\ PipelineAtRest
  /\ BotAtRest
  /\ _LAST_QUOTA_ERROR = <<>>
  /\ ToolsAtRest
  /\ pc = "post"
  /\ arg \in [raise_on_error : BOOLEAN]
  /\ ret = <<>>

NextPost ==
  \/ PostRequest
  \/ QuotaSleep
  \/ ScoreText

SpecPost == InitPost /\ [][NextPost]_vars

\* --------------------------------------------------- log_subreddit_comments
_PRAW_INITIAL_COMMENTS == 100

_PRAW_STREAM_ERROR_RETRY_WAIT_SECONDS == 15

\* Comments the subreddit gets, numbered in the order of their creation.
MaxStream == 102

\* Server errors of one run.
MaxErrors == 2

\* The numbers of already yielded comments and of new comments in the
\* listing that stream.comments() starts with.
OldCounts == {0, 1, 99, 100}

NewCounts == {0, 1, 2, 100}

\* The last n elements of s, or all of s.
last(s, n) == SubSeq(s, IF Len(s) > n THEN Len(s) - n + 1 ELSE 1, Len(s))

\* d.append(x) on a deque that holds one element less.
deque_append_short(d, x) == last(Append(d, x), _PRAW_INITIAL_COMMENTS - 1)

\* d.append(x) on deque(maxlen=_PRAW_INITIAL_COMMENTS).
deque_append(d, x) == last(Append(d, x), _PRAW_INITIAL_COMMENTS)

\* The body of the for loop of comment_stream on the comment with id x.
stream_item(x) ==
  IF \E k \in DOMAIN seen_comment_ids : seen_comment_ids[k] = x
    THEN UNCHANGED <<seen_comment_ids, yielded>>
    ELSE /\ seen_comment_ids' = deque_append(seen_comment_ids, x)
         /\ yielded' = Append(yielded, x)

\* stream.comments() is called: its listing holds the most recently yielded
\* comments, oldest first, and then comments not delivered before.
Connect ==
  /\ pc = "connect"
  /\ \E m \in OldCounts, n \in NewCounts :
       /\ m <= Len(yielded)
       /\ m + n <= _PRAW_INITIAL_COMMENTS
       /\ delivered + n <= MaxStream
       /\ listing' = last(yielded, m) \o [k \in 1..n |-> delivered + k]
  /\ pc' = "iterate"
  /\ UNCHANGED <<seen_comment_ids, yielded, delivered>>
  /\ UNCHANGED <<env, ids_to_skip, pos, skipped, last_time, last_yield_time,
                 current_batch, oldest_read, lines_exited, records, wake_at,
                 emitted, waited, first_fed, seek_len, has_mod_creds,
                 statuses, comments_by_id, response, warned, leftover, arg,
                 ret, bot, _LAST_QUOTA_ERROR, frame, out_file>>

\* The stream delivers the next comment of its listing.
DeliverListed ==
  /\ pc = "iterate"
  /\ listing # <<>>
  /\ stream_item(Head(listing))
  /\ listing' = Tail(listing)
  /\ delivered' = IF Head(listing) > delivered THEN Head(listing) ELSE delivered
  /\ pc' = "iterate"
  /\ UNCHANGED <<env, ids_to_skip, pos, skipped, last_time, last_yield_time,
                 current_batch, oldest_read, lines_exited, records, wake_at,
                 emitted, waited, first_fed, seek_len, has_mod_creds,
                 statuses, comments_by_id, response, warned, leftover, arg,
                 ret, bot, _LAST_QUOTA_ERROR, frame, out_file>>

\* The listing is used up and the stream delivers a comment just created.
DeliverNew ==
  /\ pc = "iterate"
  /\ listing = <<>>
  /\ delivered < MaxStream
  /\ stream_item(delivered + 1)
  /\ delivered' = delivered + 1
  /\ pc' = "iterate"
  /\ UNCHANGED listing
  /\ UNCHANGED <<env, ids_to_skip, pos, skipped, last_time, last_yield_time,
                 current_batch, oldest_read, lines_exited, records, wake_at,
                 emitted, waited, first_fed, seek_len, has_mod_creds,
                 statuses, comments_by_id, response, warned, leftover, arg,
                 ret, bot, _LAST_QUOTA_ERROR, frame, out_file>>

\* stream.comments() raises ServerError: what it had not delivered is lost,
\* the except clause prints and sleeps, and the while loop calls it again.
ServerError ==
  /\ pc = "iterate"
  /\ now < MaxErrors * _PRAW_STREAM_ERROR_RETRY_WAIT_SECONDS
  /\ listing' = <<>>
  /\ now' = now + _PRAW_STREAM_ERROR_RETRY_WAIT_SECONDS
  /\ pc' = "connect"
  /\ UNCHANGED <<seen_comment_ids, yielded, delivered>>
  /\ UNCHANGED <<input, output, stop_at_eof, wait_delta, ids_to_skip, pos,
                 skipped, last_time, last_yield_time,
                 current_batch, oldest_read, lines_exited, records, wake_at,
                 emitted, waited, first_fed, seek_len, has_mod_creds,
                 statuses, comments_by_id, response, warned, leftover, arg,
                 ret, bot, _LAST_QUOTA_ERROR, frame, out_file>>

\* comment_stream is called and is about to call stream.comments().
InitStream ==
  /\ PipelineAtRest
  /\ BotAtRest
  /\ _LAST_QUOTA_ERROR = <<>>
  /\ ToolsAtRest
  /\ pc = "connect"
  /\ arg = <<>>
  /\ ret = <<>>

NextStream ==
  \/ Connect
  \/ DeliverListed
  \/ DeliverNew
  \/ ServerError

SpecStream == InitStream /\ [][NextStream]_vars

\* --------------------------------------------------------------- dedup_logs
\* Lines of the input file, ids in it, and the largest -window.
MaxLines == 5

MaxIds == 3

MaxWindow == 2

\* The file at in_path: line k is a record with an id; two lines with the same
\* id are told apart by the rest of the record, here the line number.
InFiles ==
  UNION {{[k \in 1..n |-> [id |-> ids[k], line |-> k]] : ids \in [1..n -> 1..MaxIds]} :
           n \in 0..MaxLines}

\* json.loads(line)[id_col]
rec_id_of(line) == line.id

\* get_counts: the number of lines and of distinct ids.
get_counts(handle) ==
  [total |-> Len(handle),
   unique |-> Cardinality({rec_id_of(handle[k]) : k \in DOMAIN handle})]

\* check_counts that compares the totals only.
check_counts_total(expected_total, expected_unique, actual_total, actual_unique) ==
  IF expected_total # actual_total
    THEN Raise("ValueError")
    ELSE Return(None)

\* check_counts, which raises when either count is not the expected one.
check_counts(expected_total, expected_unique, actual_total, actual_unique) ==
  IF expected_total # actual_total \/ expected_unique # actual_unique
    THEN Raise("ValueError")
    ELSE Return(None)

\* seen_ids.append(rec_id) on deque(maxlen=window).
seen_ids_append(seen_ids, rec_id, window) == last(Append(seen_ids, rec_id), window)

\* The generator of dedup_stream takes the next line of in_stream: a line
\* whose id is in seen_ids is counted as a dupe, another one is yielded.
DedupLine ==
  /\ pc = "dedup"
  /\ frame.pos < Len(arg.in_stream)
  /\ LET line == arg.in_stream[frame.pos + 1]
         rec_id == rec_id_of(line)
     IN IF \E k \in DOMAIN frame.seen_ids : frame.seen_ids[k] = rec_id
          THEN /\ frame' = [frame EXCEPT !.pos = @ + 1, !.dupes = @ + 1]
               /\ pc' = "dedup"
          ELSE /\ frame' = [frame EXCEPT
                              !.pos = @ + 1,
                              !.yielded = @ + 1,
                              !.seen_ids = seen_ids_append(@, rec_id, arg.window),
                              !.line = <<line>>]
               /\ pc' = "write"
  /\ UNCHANGED out_file
  /\ UNCHANGED <<env, ids_to_skip, pos, skipped, last_time, last_yield_time,
                 current_batch, oldest_read, lines_exited, records, wake_at,
                 emitted, waited, first_fed, seek_len, has_mod_creds,
                 statuses, comments_by_id, response, warned, leftover, arg,
                 ret, bot, _LAST_QUOTA_ERROR, seen_comment_ids, listing,
                 yielded, delivered>>

\* dedup_within_window writes the line yielded and asks for the next.
WriteLine ==
  /\ pc = "write"
  /\ out_file' = out_file \o frame.line
  /\ frame' = [frame EXCEPT !.line = <<>>]
  /\ pc' = "dedup"
  /\ UNCHANGED <<env, ids_to_skip, pos, skipped, last_time, last_yield_time,
                 current_batch, oldest_read, lines_exited, records, wake_at,
                 emitted, waited, first_fed, seek_len, has_mod_creds,
                 statuses, comments_by_id, response, warned, leftover, arg,
                 ret, bot, _LAST_QUOTA_ERROR, seen_comment_ids, listing,
                 yielded, delivered>>

\* in_stream is exhausted: the generator prints its counts and calls
\* check_counts; its exception leaves dedup_within_window through the two
\* with statements, which close the files.
CheckCounts ==
  /\ pc = "dedup"
  /\ frame.pos = Len(arg.in_stream)
  /\ ret' = check_counts(arg.expected_total, arg.expected_unique,
                         frame.yielded + frame.dupes, frame.yielded)
  /\ pc' = IF ret'.raised = None THEN "returned" ELSE "raised"
  /\ UNCHANGED <<frame, out_file>>
  /\ UNCHANGED <<env, ids_to_skip, pos, skipped, last_time, last_yield_time,
                 current_batch, oldest_read, lines_exited, records, wake_at,
                 emitted, waited, first_fed, seek_len, has_mod_creds,
                 statuses, comments_by_id, response, warned, leftover, arg,
                 bot, _LAST_QUOTA_ERROR, seen_comment_ids, listing,
                 yielded, delivered>>

\* dedup_within_window has opened both files.  The expected counts are those
\* of get_counts, as _main passes them, or one of them is off by one.
InitDedup ==
  /\ PipelineAtRest
  /\ BotAtRest
  /\ _LAST_QUOTA_ERROR = <<>>
  /\ seen_comment_ids = <<>>
  /\ listing = <<>>
  /\ yielded = <<>>
  /\ delivered = 0
  /\ pc = "dedup"
  /\ \E in_stream \in InFiles, window \in 0..MaxWindow, off \in {0, 1}, which \in {0, 1} :
       arg = [in_stream |-> in_stream,
              window |-> window,
              expected_total |-> get_counts(in_stream).total + off * which,
              expected_unique |-> get_counts(in_stream).unique + off * (1 - which)]
  /\ ret = <<>>
  /\ frame = [seen_ids |-> <<>>, yielded |-> 0, dupes |-> 0, pos |-> 0,
              line |-> <<>>]
  /\ out_file = <<>>

\* df.drop_duplicates(subset=[id_col]): the first line of every id.
drop_duplicates(df) ==
  SelectSeq(df, LAMBDA l : \A i \in 1..(l.line - 1) : df[i].id # l.id)

\* _main of dedup_logs: with no duplicate in the input it exits; with an
\* output path that exists it raises; otherwise pandas_dedup writes the
\* output (-window 0), or dedup_within_window opens both files.
DedupMain ==
  /\ pc = "dedup_main"
  /\ LET counts == get_counts(arg.in_stream)
     IN IF counts.total = counts.unique
          THEN /\ pc' = "exit"
               /\ UNCHANGED <<arg, ret, frame, out_file>>
          ELSE IF arg.output_exists
                 THEN /\ ret' = Raise("ValueError")
                      /\ pc' = "raised"
                      /\ UNCHANGED <<arg, frame, out_file>>
                 ELSE /\ arg' = [in_stream |-> arg.in_stream,
                                 window |-> arg.window,
                                 expected_total |-> counts.total,
                                 expected_unique |-> counts.unique]
                      /\ IF arg.window = 0
                           THEN /\ out_file' = drop_duplicates(arg.in_stream)
                                /\ ret' = check_counts(
                                            counts.total, counts.unique,
                                            Len(arg.in_stream),
                                            Len(drop_duplicates(arg.in_stream)))
                                /\ pc' = "returned"
                                /\ UNCHANGED frame
                           ELSE /\ out_file' = <<>>
                                /\ frame' = [seen_ids |-> <<>>, yielded |-> 0,
                                             dupes |-> 0, pos |-> 0,
                                             line |-> <<>>]
                                /\ pc' = "dedup"
                                /\ UNCHANGED ret
  /\ UNCHANGED <<env, ids_to_skip, pos, skipped, last_time, last_yield_time,
                 current_batch, oldest_read, lines_exited, records, wake_at,
                 emitted, waited, first_fed, seek_len, has_mod_creds,
                 statuses, comments_by_id, response, warned, leftover,
                 bot, _LAST_QUOTA_ERROR, seen_comment_ids, listing,
                 yielded, delivered>>

\* A program starts: check_mod_actions with an output log that exists, or
\* dedup_logs with or without a file at its output path.
InitOutput ==
  \/ InitSeek
  \/ /\ PipelineAtRest
     /\ BotAtRest
     /\ _LAST_QUOTA_ERROR = <<>>
     /\ seen_comment_ids = <<>>
     /\ listing = <<>>
     /\ yielded = <<>>
     /\ delivered = 0
     /\ pc = "dedup_main"
     /\ \E in_stream \in InFiles, window \in 0..MaxWindow, exists \in BOOLEAN :
          arg = [in_stream |-> in_stream, window |-> window,
                 output_exists |-> exists]
     /\ ret = <<>>
     /\ frame = <<>>
     /\ out_file \in {<<>>, <<[id |-> 1, line |-> 0]>>}
     /\ arg.output_exists \/ out_file = <<>>

NextOutput ==
  \/ NextSeek
  \/ DedupMain
  \/ DedupLine
  \/ WriteLine
  \/ CheckCounts

SpecOutput == InitOutput /\ [][NextOutput]_vars

NextDedup ==
  \/ DedupLine
  \/ WriteLine
  \/ CheckCounts

SpecDedup == InitDedup /\ [][NextDedup]_vars

\* -------------------------------------------------------- check_mod_actions
\* Longest status response.
MaxResp == 3

\* The comments reddit.info can return for a batch: those of the ids in the
\* logs, one more id, and one whose attributes cannot be read.
InfoComments ==
  {Comment(i, "username", "hello", FALSE, FALSE, FALSE) : i \in 1..(MaxLen + 1)}
    \cup {Comment(1, "username", "hello", FALSE, FALSE, TRUE)}

\* What reddit.info does for one request: at_call, it raises when called;
\* otherwise it yields items, in any order, with entries dropped, added or
\* repeated, and after them raises (fails) or stops.
Responses ==
  {[at_call |-> TRUE, items |-> <<>>, fails |-> FALSE]}
    \cup {[at_call |-> FALSE, items |-> it, fails |-> f] :
            it \in UNION {[1..k -> InfoComments] : k \in 0..MaxResp},
            f \in BOOLEAN}

\* fetch_comment_statuses: the generator over reddit.info(comment_ids), or
\* [] when making it raised.  The generator is consumed by the caller.
fetch_comment_statuses(resp) ==
  IF resp.at_call
    THEN [items |-> <<>>, fails |-> FALSE]
    ELSE [items |-> resp.items, fails |-> resp.fails]

\* comments_by_id = {c[id_key]: c for c in comments}: a later record with
\* the same id replaces an earlier one.
index_by_id(comments) ==
  [i \in {comments[k].comment_id : k \in 1..Len(comments)} |->
     CHOOSE k \in 1..Len(comments) :
       /\ comments[k].comment_id = i
       /\ \A j \in (k + 1)..Len(comments) : comments[j].comment_id # i]

\* log_subreddit_comments.now_timestamp
now_timestamp == datetime_timestamp(now)

\* comment.update(status) without the time stamp.
update_no_stamp(comment, status) == status @@ comment

\* comment.update(status); comment['action_checked_utc'] = now_timestamp()
update(comment, status) ==
  [action_checked_utc |-> now_timestamp] @@ status @@ comment

\* A dict without key k.
del(d, k) == [i \in DOMAIN d \ {k} |-> d[i]]

\* check_mod_actions is called with the next batch: fetch_comment_statuses
\* and the index of the batch by id.
FetchStatuses ==
  /\ pc = "batch"
  /\ pos < Len(input)
  /\ \E n \in 1..(Len(input) - pos), resp \in Responses :
       /\ records' = SubSeq(input, pos + 1, pos + n)
       /\ pos' = pos + n
       /\ response' = resp
       /\ statuses' = fetch_comment_statuses(resp)
       /\ comments_by_id' = index_by_id(SubSeq(input, pos + 1, pos + n))
  /\ warned' = {}
  /\ leftover' = {}
  /\ pc' = "merge"
  /\ UNCHANGED <<env, ids_to_skip, skipped, last_time, last_yield_time,
                 current_batch, oldest_read, lines_exited, wake_at, emitted,
                 waited, first_fed, seek_len, has_mod_creds, arg, ret>>
  /\ UNCHANGED <<bot, _LAST_QUOTA_ERROR, tools>>

\* One iteration of the loop over statuses.
MergeStatus ==
  /\ pc = "merge"
  /\ statuses.items # <<>>
  /\ LET st == get_comment_status(Head(statuses.items), has_mod_creds)
         comment_id == st[1]
         status == st[2]
     IN IF comment_id = NoneId \/ DOMAIN status = {}
          THEN UNCHANGED <<records, comments_by_id, warned>>
          ELSE IF comment_id \notin DOMAIN comments_by_id
            THEN /\ warned' = warned \cup {comment_id}
                 /\ UNCHANGED <<records, comments_by_id>>
            ELSE /\ records' =
                      [records EXCEPT ![comments_by_id[comment_id]] =
                         update(@, status)]
                 /\ comments_by_id' = del(comments_by_id, comment_id)
                 /\ UNCHANGED warned
  /\ statuses' = [statuses EXCEPT !.items = Tail(@)]
  /\ UNCHANGED <<env, pc, ids_to_skip, pos, skipped, last_time,
                 last_yield_time, current_batch, oldest_read, lines_exited,
                 wake_at, emitted, waited, first_fed, seek_len,
                 has_mod_creds, response, leftover, arg, ret>>
  /\ UNCHANGED <<bot, _LAST_QUOTA_ERROR, tools>>

\* The generator raises while the loop asks it for the next status: the
\* exception leaves check_mod_actions and _main.
StatusesRaise ==
  /\ pc = "merge"
  /\ statuses.items = <<>>
  /\ statuses.fails
  /\ pc' = "crashed"
  /\ UNCHANGED <<env, ids_to_skip, pos, skipped, last_time, last_yield_time,
                 current_batch, oldest_read, lines_exited, records, wake_at,
                 emitted, waited, first_fed, seek_len, aux>>

\* The loop is over: the comments left in comments_by_id are printed.
ReportLeftover ==
  /\ pc = "merge"
  /\ statuses.items = <<>>
  /\ ~statuses.fails
  /\ leftover' = DOMAIN comments_by_id
  /\ pc' = "append"
  /\ UNCHANGED <<env, ids_to_skip, pos, skipped, last_time, last_yield_time,
                 current_batch, oldest_read, lines_exited, records, wake_at,
                 emitted, waited, first_fed, seek_len, has_mod_creds,
                 statuses, comments_by_id, response, warned, arg, ret>>
  /\ UNCHANGED <<bot, _LAST_QUOTA_ERROR, tools>>

\* append_records(output_path, comments); _main asks for the next batch.
AppendRecords ==
  /\ pc = "append"
  /\ output' = append_records(output, records)
  /\ records' = <<>>
  /\ statuses' = <<>>
  /\ comments_by_id' = <<>>
  /\ response' = <<>>
  /\ warned' = {}
  /\ leftover' = {}
  /\ pc' = "batch"
  /\ UNCHANGED <<input, stop_at_eof, wait_delta, now, ids_to_skip, pos,
                 skipped, last_time, last_yield_time, current_batch,
                 oldest_read, lines_exited, wake_at, emitted, waited,
                 first_fed, seek_len, has_mod_creds, arg, ret>>
  /\ UNCHANGED <<bot, _LAST_QUOTA_ERROR, tools>>

\* check_mod_actions on the batches of an input log, each with any response.
InitMerge ==
  /\ input \in LoggerLogs(MaxLen)
  /\ output = <<>>
  /\ stop_at_eof = TRUE
  /\ wait_delta = 0
  /\ now = 0
  /\ pc = "batch"
  /\ ids_to_skip = {}
  /\ pos = 0
  /\ skipped = 0
  /\ last_time = 0
  /\ last_yield_time = 0
  /\ current_batch = <<>>
  /\ oldest_read = 0
  /\ lines_exited = FALSE
  /\ records = <<>>
  /\ wake_at = 0
  /\ emitted = <<>>
  /\ waited = 0
  /\ first_fed = 0
  /\ seek_len = 0
  /\ has_mod_creds \in BOOLEAN
  /\ statuses = <<>>
  /\ comments_by_id = <<>>
  /\ response = <<>>
  /\ warned = {}
  /\ leftover = {}
  /\ arg = <<>>
  /\ ret = <<>>
  /\ BotAtRest
  /\ _LAST_QUOTA_ERROR = <<>>
  /\ ToolsAtRest

NextMerge ==
  \/ FetchStatuses
  \/ MergeStatus
  \/ StatusesRaise
  \/ ReportLeftover
  \/ AppendRecords

SpecMerge == InitMerge /\ [][NextMerge]_vars

\* ------------------------------------------------------- resume: claims
\* The comment ids of a log are pairwise distinct.
Distinct(f) ==
  \A i, j \in 1..Len(f) : f[i].comment_id = f[j].comment_id => i = j

\* The ids of the first k records of a log.
PrefixIds(f, k) == {f[i].comment_id : i \in 1..k}

\* seek_past_ids has run in this run.
Sought == pc # "start" /\ ids_to_skip # {}

\* Skipping k records succeeded: nothing raised, k records were discarded
\* and line k + 1 is where reading starts.
SkippedTo(k) ==
  /\ pc # "failed"
  /\ skipped = k
  /\ IF first_fed = 0 THEN pos = k ELSE first_fed = k + 1

\* C1 as stated: for a log with distinct ids and every k in 1..n, a resume
\* set that is the ids of the first k records makes seek_past_ids discard
\* exactly k records without error and leave the input at record k + 1
\* (at end of input when k = n).
C1_Original ==
  (Sought /\ Distinct(input)) =>
    \A k \in 1..Len(input) :
      ids_to_skip = PrefixIds(input, k) => SkippedTo(k)

\* C1 amended: the same for every k with 1 <= k < n; with k = n the
\* whole log is skipped and seek_past_ids raises at end of input.
C1_SkipPrefix ==
  (Sought /\ Distinct(input)) =>
    /\ \A k \in 1..(Len(input) - 1) :
         ids_to_skip = PrefixIds(input, k) => SkippedTo(k)
    /\ ids_to_skip = PrefixIds(input, Len(input)) =>
         pc = "failed" /\ pos = Len(input)

C1_Witness ==
  /\ Sought /\ Distinct(input) /\ Len(input) = 3
  /\ ids_to_skip = PrefixIds(input, 2)
  /\ first_fed = 3
  /\ pc = "done"

\* C2: for a log with distinct ids and a non-empty resume set that is not
\* the id set of a prefix of the log, seek_past_ids raises and no record is
\* fed to the batcher; and whenever seek_past_ids returns normally it has
\* skipped exactly as many records as the resume set has ids.
C2_ResumeInconsistency ==
  /\ (Sought /\ Distinct(input)
        /\ \A k \in 1..Len(input) : ids_to_skip # PrefixIds(input, k)) =>
       /\ pc = "failed"
       /\ first_fed = 0
       /\ current_batch = <<>> /\ records = <<>> /\ emitted = <<>>
  /\ (Sought /\ pc # "failed") => skipped = Cardinality(ids_to_skip)

\* A gap in the prefix: the first record was skipped, the second is not in
\* the resume set but a later one is.
C2_Witness ==
  /\ Sought /\ Distinct(input) /\ pc = "failed"
  /\ skipped = 1 /\ Cardinality(ids_to_skip) = 2
  /\ ids_to_skip \subseteq PrefixIds(input, Len(input))

\* C3: when every record of the source is in the resume set, end of input
\* is reached while skipping: seek_past_ids raises and the input is left at
\* its end.
C3_EofWhileSkipping ==
  (Sought /\ \A i \in 1..Len(input) : input[i].comment_id \in ids_to_skip) =>
    pc = "failed" /\ pos = Len(input) /\ first_fed = 0

\* The resume set is the ids of both records of a log of two.
C3_Witness ==
  /\ Sought /\ Len(input) = 2 /\ Distinct(input)
  /\ ids_to_skip = PrefixIds(input, 2)
  /\ pc = "failed" /\ pos = 2 /\ skipped = 2

\* -------------------------------------------------------- rerun: claims
\* The comment ids of a log, in order.
IdsOf(f) == [i \in 1..Len(f) |-> f[i].comment_id]

\* Sequence s is a prefix of sequence t.
IsPrefix(s, t) == Len(s) <= Len(t) /\ \A i \in 1..Len(s) : s[i] = t[i]

\* C4 as stated: over any number of runs on the same input log, each
\* restart resuming from the ids in the output log, each comment id is
\* written to the output log at most once.
C4_Original == Distinct(output)

\* C4 amended: the same for an input log with pairwise distinct comment
\* ids; and for every input log no line of the input is written twice: the
\* output log is a prefix of the input log.
C4_AtMostOnce ==
  /\ Distinct(input) => Distinct(output)
  /\ IsPrefix(IdsOf(output), IdsOf(input))

\* A run killed after its first batch was written, and a later run that
\* resumed from the output log and wrote the rest.
C4_Witness ==
  /\ Distinct(input) /\ Len(input) = 3 /\ Len(output) = 3
  /\ Cardinality(ids_to_skip) = 1
  /\ skipped = 1

\* ------------------------------------------------------ batching: claims
\* C5: every batch read_batches yields is non-empty and has at most
\* _PRAW_BATCH_SIZE records, a batch yielded by the size trigger has exactly
\* that many, and the pending batch is yielded as soon as it reaches that
\* size, so it is smaller in every state in which a line can be read; a
\* batch is with the consumer exactly while one was yielded.
C5_BatchBound ==
  /\ Len(current_batch) < _PRAW_BATCH_SIZE
  /\ \A i \in 1..Len(emitted) :
       /\ emitted[i].n \in 1.._PRAW_BATCH_SIZE
       /\ emitted[i].trigger = "size" <=> emitted[i].n = _PRAW_BATCH_SIZE
  /\ Len(records) <= _PRAW_BATCH_SIZE
  /\ records # <<>> <=> pc \in {"wait", "fetch"}

\* Full batches and a sentinel-driven batch in one run without
\* -stop_at_eof.
C5_Witness ==
  /\ ~stop_at_eof
  /\ Len(emitted) = 3
  /\ emitted[1].n = _PRAW_BATCH_SIZE
  /\ emitted[3].trigger = "delay"
  /\ pc = "sleep" /\ current_batch = <<>>

\* The batches of an undisturbed run over the burst with -stop_at_eof.
Three ==
  <<[n |-> 100, trigger |-> "size"], [n |-> 100, trigger |-> "size"],
    [n |-> 50, trigger |-> "eof"]>>

ArrivedAt(r) == strptime(r.created_utc)

\* Any two consecutive records arrived more than max_batch_delay apart.
Sparse(f) ==
  \A i \in 1..(Len(f) - 1) :
    ArrivedAt(f[i + 1]) - ArrivedAt(f[i]) > max_batch_delay

\* C7 as stated: without -stop_at_eof, when three records arrive more than
\* max_batch_delay apart, every batch emitted holds one record and is
\* emitted no later than max_batch_delay after the record was read.
C7_Original ==
  (Len(input) = 3 /\ Distinct(input) /\ Sparse(input)) =>
    /\ \A i \in 1..Len(emitted) : emitted[i].n = 1
    /\ waited <= max_batch_delay

\* C9 as stated: while the reader is at end of data without -stop_at_eof,
\* never more than max_batch_delay / 2 passes after read_lines has yielded
\* a line or a sentinel to read_batches without it yielding the next one.
C9_Original ==
  (pc \in {"lines", "sleep"} /\ pos = Len(input) /\ last_time > 0) =>
    now - last_time <= lines_delay

\* Long enough for any pending batch to cross max_batch_delay and for the
\* sentinel after that to arrive.
Slack == 2 * max_batch_delay + Overshoot

\* C8: without -stop_at_eof, a pending batch at end of data is eventually
\* yielded, whether or not another record is ever appended, as long as the
\* clock has room to advance.
C8_NoStranding ==
  (~stop_at_eof /\ current_batch # <<>> /\ pos = Len(input)
     /\ now + Slack <= MaxTime)
    ~> (current_batch = <<>>)

\* A batch yielded by a sentinel: nothing was appended after its record
\* was read.
C8_Witness ==
  /\ ~stop_at_eof
  /\ Len(input) = 1
  /\ pc = "fetch"
  /\ emitted = <<[n |-> 1, trigger |-> "delay"]>>
  /\ waited > 0

\* C10: when check_mod_actions is called with a batch, every record of the
\* batch was created at least wait_delta ago; while wait_until sleeps, the
\* sleep is requested to end at the youngest creation time plus wait_delta;
\* and wait_until sleeps only when that time is still ahead.
C10_WaitUntilSafe ==
  /\ [](pc = "fetch" =>
         \A i \in 1..Len(records) :
           now >= strptime(records[i].created_utc) + wait_delta)
  /\ [](pc = "wait" =>
         /\ \A i \in 1..Len(records) :
              wake_at >= strptime(records[i].created_utc) + wait_delta
         /\ \E i \in 1..Len(records) :
              wake_at = strptime(records[i].created_utc) + wait_delta)
  /\ [][(pc # "wait" /\ pc' = "wait") => now' < wake_at']_vars

\* A batch of two records created at different times, handed over after
\* a wait.
C10_Witness ==
  /\ pc = "fetch"
  /\ wait_delta > 0
  /\ Len(records) = 2
  /\ records[1].created_utc # records[2].created_utc
  /\ now = strptime(records[2].created_utc) + wait_delta

\* ---------------------------------------------------------- merge: claims
\* The batch check_mod_actions was called with, as it is in the input log.
Batch == SubSeq(input, pos - Len(records) + 1, pos)

\* The (id, status) pairs the loop over statuses has been given, in order,
\* without the (None, None) ones.
Returned ==
  SelectSeq([j \in 1..Len(response.items) |->
               get_comment_status(response.items[j], has_mod_creds)],
            LAMBDA st : st[1] # NoneId)

\* The status of the first returned pair that carries id i.
FirstStatus(i) ==
  Returned[CHOOSE j \in 1..Len(Returned) :
             /\ Returned[j][1] = i
             /\ \A h \in 1..(j - 1) : Returned[h][1] # i][2]

ReturnedIds == {Returned[j][1] : j \in 1..Len(Returned)}

\* C11 as stated: when the loop over statuses is over, a record of the
\* batch carries status fields iff an id equal to its own was returned, and
\* then carries the fields of the first status with that id; every other
\* record is as it was in the input; the returned ids that are not in the
\* batch were printed and the ids of the records without a status were
\* printed as lacking status data.
C11_Original ==
  pc = "append" =>
    /\ \A k \in 1..Len(records) :
         IF Batch[k].comment_id \in ReturnedIds
           THEN records[k] =
                  update(Batch[k], FirstStatus(Batch[k].comment_id))
           ELSE records[k] = Batch[k]
    /\ \A i \in ReturnedIds :
         i \notin {Batch[k].comment_id : k \in 1..Len(Batch)} => i \in warned
    /\ leftover =
         {Batch[k].comment_id : k \in 1..Len(Batch)} \ ReturnedIds

\* A record of the output log without what check_mod_actions added.
Strip(r) == [comment_id |-> r.comment_id, created_utc |-> r.created_utc]

\* A status was merged into the record.
HasStatus(r) == "deleted" \in DOMAIN r

\* C12: whatever the response, the records check_mod_actions appends are
\* those of the batch, once each and in batch order, and batches are
\* appended in the order they were taken: line k of the output log is line
\* k of the input log plus status fields, and after each call the output
\* log holds every record handed over so far.
C12_AppendsBatchInOrder ==
  /\ Len(output) <= Len(input)
  /\ \A k \in 1..Len(output) : Strip(output[k]) = input[k]
  /\ pc = "batch" => Len(output) = pos
  /\ pc \in {"merge", "append"} =>
       /\ Len(output) + Len(records) = pos
       /\ \A k \in 1..Len(records) : Strip(records[k]) = Batch[k]

\* Two batches written, the first with a status for its record, the second
\* with no status at all for its two records.
C12_Witness ==
  /\ pc = "batch"
  /\ Len(output) = 3
  /\ HasStatus(output[1])
  /\ ~HasStatus(output[2])
  /\ ~HasStatus(output[3])
  /\ output[2].comment_id # output[3].comment_id

\* C13 as stated: every record of the output log carries
\* action_checked_utc.
C13_Original ==
  \A k \in 1..Len(output) : "action_checked_utc" \in DOMAIN output[k]

\* C13 amended: a record of the output log carries action_checked_utc,
\* the time of the merge, iff a status was merged into it; a record for
\* which no status was merged is written exactly as it was read.
C13_CheckedIffStatus ==
  \A k \in 1..Len(output) :
    IF HasStatus(output[k])
      THEN /\ "action_checked_utc" \in DOMAIN output[k]
           /\ output[k].action_checked_utc = now_timestamp
      ELSE output[k] = input[k]

\* One batch of two records written, one with a status and one without.
C13_Witness ==
  /\ pc = "batch"
  /\ Len(output) = 2
  /\ HasStatus(output[1])
  /\ "action_checked_utc" \in DOMAIN output[1]
  /\ output[2] = input[2]

\* C14 as stated: no failure of the status source takes the pipeline
\* down: the exception never leaves check_mod_actions.
C14_Original == pc # "crashed"

\* ---------------------------------------------------- end of data: claims
RECURSIVE EmittedCount(_)
\* The number of records in the first n batches yielded in this run.
EmittedCount(n) == IF n = 0 THEN 0 ELSE EmittedCount(n - 1) + emitted[n].n

\* C15: with -stop_at_eof the run ends (normally, or with the error of
\* seek_past_ids), unless wait_until sleeps beyond the end of the clock;
\* read_lines returns only at end of input and read_batches yields the
\* pending batch in the same instant, so that nothing is pending after
\* it; when the run has ended normally, the records after the resume point
\* that the input held then were yielded once each, in consecutive
\* batches, and written; and read_lines never sleeps and never yields a
\* sentinel.
C15_StopAtEof ==
  /\ (stop_at_eof ~>
        (pc \in {"done", "failed"} \/ (pc = "wait" /\ wake_at > MaxTime)))
  /\ [](stop_at_eof =>
          /\ pc # "sleep"
          /\ lines_exited => current_batch = <<>>
          /\ pc = "done" =>
               /\ lines_exited
               /\ skipped + EmittedCount(Len(emitted)) = pos
               /\ output = SubSeq(input, 1, pos))
  /\ [][(stop_at_eof /\ ~lines_exited /\ lines_exited') =>
          /\ pos = Len(input)
          /\ now' = now
          /\ current_batch # <<>> =>
               /\ Len(emitted') = Len(emitted) + 1
               /\ emitted'[Len(emitted')].n = Len(current_batch)]_vars
  /\ [][stop_at_eof => ~Sentinel]_vars

\* A resumed run that has ended: one record was skipped and the two after
\* it were yielded at end of file as one partial batch, waited for and
\* written.
C15_Witness ==
  /\ stop_at_eof /\ pc = "done"
  /\ skipped = 1 /\ Len(input) = 3 /\ Len(output) = 3
  /\ emitted = <<[n |-> 2, trigger |-> "eof"]>>
  /\ wait_delta = MaxWait
  /\ now < MaxTime

\* C16: without -stop_at_eof read_lines never returns and the run never
\* ends; a sleep at end of data ends and the input is polled again; every
\* line the input holds, whenever it was appended, is eventually read; and
\* every line read is eventually yielded in a batch; each as long as the
\* clock has room to advance.
C16_RunForever ==
  /\ [](~stop_at_eof => pc # "done" /\ ~lines_exited)
  /\ ((~stop_at_eof /\ pc = "sleep" /\ wake_at <= MaxTime) ~> (pc = "lines"))
  /\ \A k \in 1..MaxLen :
       /\ (~stop_at_eof /\ Len(input) >= k
             /\ now + lines_delay + Overshoot <= MaxTime)
            ~> (pos >= k)
       /\ (~stop_at_eof /\ pos >= k /\ now + Slack <= MaxTime)
            ~> (skipped + EmittedCount(Len(emitted)) >= k)

\* A line appended while the reader slept at end of data, read after the
\* sleep and yielded by the delay trigger.
C16_Witness ==
  /\ ~stop_at_eof
  /\ seek_len = 0
  /\ Len(input) = 2
  /\ ArrivedAt(input[2]) > 0
  /\ emitted = <<[n |-> 1, trigger |-> "delay"], [n |-> 1, trigger |-> "delay"]>>
  /\ pc = "sleep"

\* ----------------------------------------------------------- files: claims
\* The variables of the reconciliation process.
process == <<pc, ids_to_skip, pos, skipped, last_time, last_yield_time,
             current_batch, oldest_read, lines_exited, records, wake_at,
             emitted, waited, first_fed, seek_len>>

\* C17: no step of the reconciliation process changes the input log (the
\* only steps that change it are the logger's appends, which leave the
\* process and the output log as they are), and a step that changes the
\* output log appends the records of the current batch to it, leaving
\* every line already there in place.
C17_InputReadOnly ==
  /\ [][input' # input =>
          /\ UNCHANGED <<process, output>>
          /\ IsPrefix(input, input')]_vars
  /\ [][output' # output =>
          /\ pc = "fetch"
          /\ IsPrefix(output, output')
          /\ output' = output \o records
          /\ input' = input]_vars

\* A restarted run has appended a second batch behind the lines that were
\* in the output log when it started.
C17_Witness ==
  /\ pc \in {"lines", "done"}
  /\ skipped = 2
  /\ Len(output) = 3
  /\ output = input
  /\ Len(emitted) = 1

\* ---------------------------------------------------------- status: claims
\* C18: for a comment whose attributes can be read, get_comment_status
\* returns the comment's id and a status with deleted = (author is None
\* and body = '[deleted]'); with moderator credentials approved and removed
\* are the comment's own fields; without them removed = (author is None
\* and body = '[removed]') and the status has no approved key.  For a
\* comment whose attributes cannot be read it returns (None, None).
C18_CommentStatus ==
  pc = "returned" =>
    LET c == arg.comment
        status == ret[2]
    IN IF c.raises
         THEN ret = <<NoneId, NoneDict>>
         ELSE /\ ret[1] = c.id
              /\ status.deleted = (c.author = None /\ c.body = "[deleted]")
              /\ arg.has_mod_creds =>
                   /\ status.approved = c.approved
                   /\ status.removed = c.removed
              /\ ~arg.has_mod_creds =>
                   /\ status.removed = (c.author = None /\ c.body = "[removed]")
                   /\ "approved" \notin DOMAIN status

\* The case of test_get_comment_status_removed_has_mod_creds with the
\* removed field unset: the body says '[removed]', the comment does not.
C18_Witness ==
  /\ pc = "returned"
  /\ arg.has_mod_creds
  /\ arg.comment.author = None
  /\ arg.comment.body = "[removed]"
  /\ ~arg.comment.removed
  /\ ~arg.comment.raises
  /\ ret[2].removed = FALSE

\* ------------------------------------------------------------ rule: claims
\* The models a rule names.
RuleModels(rule) == {rule.model_rules[i][1] : i \in DOMAIN rule.model_rules}

\* The comparisons of well-formed predicates, with what they say.
Strict == {<<">">>, <<"<">>}

Predicate(c, t) == c \o <<" ">> \o t

Tenths(t) == IF t = <<"0", ".", "5">> THEN 5 ELSE 9

\* Predicate (model, c t) holds under scores s, strictly.
Holds(s, model, c, t) ==
  IF c = <<">">> THEN s[model] > Tenths(t) ELSE s[model] < Tenths(t)

\* The rule is made of well-formed predicates with comparators '>' and '<'.
WellFormed(rule) ==
  \A i \in DOMAIN rule.model_rules :
    \E c \in Strict, t \in Thresholds : rule.model_rules[i][2] = Predicate(c, t)

\* Every predicate of the rule holds and, with toplevel_only set true, the
\* comment is a top-level comment.
Fires(rule, s, comment) ==
  /\ \A i \in DOMAIN rule.model_rules :
       \E c \in Strict, t \in Thresholds :
         /\ rule.model_rules[i][2] = Predicate(c, t)
         /\ Holds(s, rule.model_rules[i][1], c, t)
  /\ ("toplevel_only" \in DOMAIN rule.comment_feature_rules
        /\ rule.comment_feature_rules.toplevel_only)
       => comment.parent_id = comment.link_id

\* The rule with the comparison of its i-th predicate replaced.
Replaced(rule, i, comparison) ==
  [rule EXCEPT !.model_rules[i] = <<rule.model_rules[i][1], comparison>>]

\* C19: for a rule of predicates with comparators '>' and '<' and a
\* score map holding every model the rule names, check_model_rules
\* returns, and returns true iff every predicate holds strictly and, with
\* toplevel_only set true, the comment's parent_id equals its link_id;
\* the rule with any one predicate replaced by one that does not hold is
\* evaluated to false; the call leaves the rule and the score map as they
\* were.
C19_RuleFires ==
  /\ [](pc \in {"returned", "raised"}
          /\ WellFormed(arg.self)
          /\ RuleModels(arg.self) \subseteq DOMAIN arg.model_scores
        => /\ pc = "returned"
           /\ ret.value = Fires(arg.self, arg.model_scores, arg.comment)
           /\ \A i \in DOMAIN arg.self.model_rules :
                \A c \in Strict, t \in Thresholds :
                  ~Holds(arg.model_scores, arg.self.model_rules[i][1], c, t)
                    => check_model_rules(
                         Replaced(arg.self, i, Predicate(c, t)),
                         arg.model_scores, arg.comment) = Return(FALSE))
  /\ [][arg' = arg]_vars

\* Two predicates, the second on a score equal to its threshold, on a
\* top-level comment with toplevel_only set: not fired.
C19_Witness ==
  /\ pc = "returned"
  /\ arg.self.model_rules = <<<<"TOXICITY", Predicate(<<">">>, <<"0", ".", "5">>)>>,
                              <<"THREAT", Predicate(<<">">>, <<"0", ".", "9">>)>>>>
  /\ arg.self.comment_feature_rules = [toplevel_only |-> TRUE]
  /\ arg.model_scores = [m \in Models |-> 9]
  /\ arg.comment.parent_id = arg.comment.link_id
  /\ ret = Return(FALSE)

\* C20: whenever a well-formed rule names a model that the score map
\* lacks, check_model_rules raises the missing-score error (KeyError) and
\* returns no boolean.
C20_Original ==
  (pc \in {"returned", "raised"}
     /\ WellFormed(arg.self)
     /\ ~(RuleModels(arg.self) \subseteq DOMAIN arg.model_scores))
  => (pc = "raised" /\ ret.raised = "KeyError")

\* ---------------------------------------------------------- config: claims
\* The rules load_rules returned.
LoadedRules == IF pc = "returned" THEN set(ret.value[1]) ELSE {}

\* The comparator of every predicate of the rule is '>' or '<'.
StrictComparators(rule) ==
  \A k \in DOMAIN rule.model_rules :
    Len(split(rule.model_rules[k][2])) = 2
      => split(rule.model_rules[k][2])[1] \in {<<">">>, <<"<">>}

\* C21: every rule that load_rules returns has only the comparators '>'
\* and '<', so that evaluating a loaded rule on a score map holding all its
\* models never raises the comparator error.
C21_Original ==
  ("rules_config" \in DOMAIN arg /\ pc = "returned") =>
    \A rule \in LoadedRules :
      /\ StrictComparators(rule)
      /\ \A comment \in RuleComments :
           check_model_rules(rule, [model \in keys(rule.model_rules) |-> 9],
                             comment).raised # "ValueError"

\* A record of the configuration asks for a rule without predicates or
\* with an action other than report and noop.
Unsupported(r) ==
  /\ {"perspective_score", "action"} \subseteq DOMAIN r
  /\ r.perspective_score = <<>> \/ r.action \notin {REPORT_ACTION, NOOP_ACTION}

\* C22: every rule load_rules has constructed has at least one model
\* predicate and the action report or noop; a configuration with a record
\* without predicates or with another action is rejected, by a ValueError
\* when that record is the first; apply_action on the action of a
\* constructed rule never reaches its unsupported-action branch.
C22_RuleWellBuilt ==
  ("rules_config" \in DOMAIN arg /\ pc # "call") =>
    /\ \A rule \in LoadedRules :
         /\ Len(rule.model_rules) >= 1
         /\ rule.action_name \in {REPORT_ACTION, NOOP_ACTION}
         /\ apply_action(rule.action_name, [report_raises |-> FALSE],
                         <<rule.rule_description>>).raised = None
    /\ (\E k \in DOMAIN arg.rules_config : Unsupported(arg.rules_config[k]))
         => pc = "raised"
    /\ (arg.rules_config # <<>> /\ Unsupported(arg.rules_config[1]))
         => ret = Raise("ValueError")

\* Two rules are constructed, one for each supported action.
C22_Witness ==
  /\ "rules_config" \in DOMAIN arg
  /\ pc = "returned"
  /\ {rule.action_name : rule \in LoadedRules} = {REPORT_ACTION, NOOP_ACTION}

\* The rule a record of the configuration is constructed to.
Constructed(r) ==
  IF {"perspective_score", "action"} \subseteq DOMAIN r
    THEN Rule(get(r, "name", NoText), r.perspective_score,
              get(r, "comment_features", <<>>), r.action,
              get(r, "report_reason", NoText))
    ELSE Raise("KeyError")

\* Every record of the list is constructed, and two of them to rules of
\* the same name.
SameRuleName(rules_config) ==
  /\ \A k \in DOMAIN rules_config : Constructed(rules_config[k]).raised = None
  /\ \E j, k \in DOMAIN rules_config :
       /\ j # k
       /\ Constructed(rules_config[j]).value.name
            = Constructed(rules_config[k]).value.name

\* Every record of the list has its keys, and two of them the same name.
SameEnsembleName(ensembles_config) ==
  /\ \A k \in DOMAIN ensembles_config :
       {"name", "feature_weights", "intercept_weight"}
         \subseteq DOMAIN ensembles_config[k]
  /\ \E j, k \in DOMAIN ensembles_config :
       j # k /\ ensembles_config[j].name = ensembles_config[k].name

\* C23: a rule list load_rules accepts is non-empty with pairwise
\* distinct names, an unnamed rule being named by its sorted model names
\* joined with '__'; an ensemble list load_ensembles accepts has pairwise
\* distinct names; an empty rule list, two rules of the same name and two
\* ensembles of the same name are each rejected with a ValueError.
C23_Original ==
  /\ ("rules_config" \in DOMAIN arg /\ pc = "returned") =>
       LET rules == ret.value[1]
       IN /\ rules # <<>>
          /\ \A j, k \in DOMAIN rules : j # k => rules[j].name # rules[k].name
          /\ \A k \in DOMAIN rules :
               "name" \notin DOMAIN arg.rules_config[k] =>
                 rules[k].name \in
                   {s_TOXICITY, s_THREAT, s_SPAM, s_e1, s_BLAH_TOXICITY,
                    s_THREAT \o <<"_", "_">> \o s_TOXICITY}
  /\ ("ensembles_config" \in DOMAIN arg /\ pc = "returned") =>
       LET ensembles == ret.value[1]
       IN \A j, k \in DOMAIN ensembles :
            j # k => ensembles[j].name # ensembles[k].name
  /\ ("rules_config" \in DOMAIN arg /\ pc # "call"
        /\ (arg.rules_config = <<>> \/ SameRuleName(arg.rules_config)))
       => ret = Raise("ValueError")
  /\ ("ensembles_config" \in DOMAIN arg /\ pc # "call"
        /\ SameEnsembleName(arg.ensembles_config))
       => ret = Raise("ValueError")

\* The names a configuration gives its ensembles, the models its ensembles
\* are fed by and the models its rules name.
EnsembleRecordsOf(config) ==
  IF "ensembles" \in DOMAIN config THEN set(config.ensembles) ELSE {}

EnsembleNames(config) ==
  {e.name : e \in {x \in EnsembleRecordsOf(config) : "name" \in DOMAIN x}}

FeatureModels(config) ==
  UNION {keys(e.feature_weights) : e \in EnsembleRecordsOf(config)}

ModelsOfRules(config) ==
  UNION {keys(r.perspective_score) :
           r \in {x \in set(config.rules) : "perspective_score" \in DOMAIN x}}

\* The configuration names a model that is neither an available API model
\* nor, in a rule, one of its ensembles.
NamesOtherModel(config) ==
  \/ ~(FeatureModels(config) \subseteq AVAILABLE_API_MODELS)
  \/ ~(ModelsOfRules(config) \subseteq
         AVAILABLE_API_MODELS \cup EnsembleNames(config))

\* load_ensembles and load_rules both accept their part of the
\* configuration.
PartsLoad(config) ==
  /\ "ensembles" \in DOMAIN config
       => load_ensembles(config.ensembles).raised = None
  /\ load_rules(config.rules).raised = None

C27_ReportText ==
  (pc # "call" /\ "descriptions" \in DOMAIN arg) =>
    LET joined == join(<<",", " ">>, arg.descriptions)
    IN /\ arg.action_name = s_report =>
            /\ Len(ret.reported) = 1
            /\ Len(ret.reported[1]) <= 100
            /\ Len(joined) <= 100 => ret.reported[1] = joined
            /\ Len(joined) > 100 =>
                 /\ Len(ret.reported[1]) = 100
                 /\ \A k \in 1..97 : ret.reported[1][k] = joined[k]
                 /\ \A k \in 98..100 : ret.reported[1][k] = "."
       /\ arg.action_name = s_noop =>
            /\ ret.reported = <<>>
            /\ ret.raised = None

\* Two reasons whose join has 101 characters were reported as 97 characters
\* and '...'.
C27_Witness ==
  /\ pc = "returned"
  /\ "descriptions" \in DOMAIN arg
  /\ arg.action_name = s_report
  /\ arg.descriptions = <<repeat("a", 49), repeat("b", 50)>>
  /\ Len(ret.reported[1]) = 100
  /\ ret.reported[1][97] = "b"
  /\ ret.reported[1][98] = "."

\* ------------------------------------------------------------- bot: claims
\* The names of the configured ensembles.
ConfiguredEnsembles == {arg.ensembles[k].name : k \in DOMAIN arg.ensembles}

\* Position of the first event e of this iteration, 0 when there is none.
FirstEvent(e) ==
  IF \E k \in DOMAIN events : events[k] = e
    THEN CHOOSE k \in DOMAIN events :
           events[k] = e /\ \A j \in 1..(k - 1) : events[j] # e
    ELSE 0

\* C25: whenever the rules of a comment are about to be evaluated or
\* have been, the score map holds a score under the name of every
\* configured ensemble, so every model of a rule that is an ensemble name
\* is found; the ensembles were evaluated before check_rules ran.
C25_EnsemblesFirst ==
  /\ pc \in {"rules", "apply", "log"} =>
       /\ ~scores.is_none
       /\ ConfiguredEnsembles \subseteq DOMAIN scores.dict
       /\ \A k \in DOMAIN arg.rules :
            keys(arg.rules[k].model_rules) \cap ConfiguredEnsembles
              \subseteq DOMAIN scores.dict
  /\ FirstEvent("check_rules") # 0 =>
       /\ FirstEvent("ensembles") # 0
       /\ FirstEvent("ensembles") < FirstEvent("check_rules")

\* The rule on the ensemble e1 fired on the score the ensemble computed.
C25_Witness ==
  /\ pc = "apply"
  /\ arg.ensembles = <<e1_ensemble>>
  /\ scores.dict[s_e1] = 9
  /\ scores.dict[s_TOXICITY] = 2
  /\ action_dict = (s_report :> <<e1_rule.rule_description>>)

s_rule_prefix == <<"r", "u", "l", "e", ":">>

s_score_prefix == <<"s", "c", "o", "r", "e", ":">>

s_rule_not_triggered ==
  <<"r", "u", "l", "e", "-", "n", "o", "t", "-", "t", "r", "i", "g", "g", "e", "r", "e", "d">>

\* The record of this iteration's comment has just been written.
JustWritten ==
  /\ pc = "stream"
  /\ events # <<>>
  /\ events[Len(events)] = "append_comment_data"

\* C26: the record written for a comment has, for every configured
\* rule, the key 'rule:<name>' holding the rule's action name when the rule
\* fired and 'rule-not-triggered' otherwise, and the key 'score:<model>' for
\* every score.
C26_Original ==
  JustWritten =>
    LET record == mod_log[Len(mod_log)]
    IN /\ \A k \in DOMAIN arg.rules :
            LET rule == arg.rules[k]
                column == s_rule_prefix \o rule.name
            IN /\ column \in DOMAIN record
               /\ record[column] =
                    IF check_model_rules(rule, scores.dict, loop_comment).value
                      THEN rule.action_name
                      ELSE s_rule_not_triggered
       /\ \A model \in DOMAIN scores.dict :
            /\ s_score_prefix \o model \in DOMAIN record
            /\ record[s_score_prefix \o model] = scores.dict[model]

\* The positions inside the body of the loop of score_subreddit.
InBody == {"score", "rules", "apply", "log"}

\* An exception was raised while this iteration's comment was handled.
Excepted == \E k \in DOMAIN events : events[k] = "exception"

\* C28: an exception raised while a comment is scored, its rules are
\* evaluated, its actions are applied or its record is written never ends
\* the loop: no step of the body leaves the loop, after the exception nothing
\* more is done for that comment, and the loop is back at the stream, which
\* can hand over the next comment.
C28_LoopContinues ==
  /\ [][(pc \in InBody) => (pc' \in InBody \cup {"stream"})]_vars
  /\ [][(pc \in InBody /\ ~Excepted /\ Excepted') =>
          (pc' = "stream" /\ events'[Len(events')] = "exception")]_vars
  /\ [](Excepted => pc \notin InBody)
  /\ []((pc = "stream" /\ loop_i < MaxComments) => ENABLED NextComment)

\* The first comment was reported and the report call raised, so that no
\* record of it was written; the second comment was then scored, and its
\* record written.
C28_Witness ==
  /\ pc = "stream"
  /\ loop_i = 2
  /\ arg.output_dir # None
  /\ \E k \in DOMAIN reports : reports[k].i = 0
  /\ Len(mod_log) = 1
  /\ mod_log[1][s_comment_id] = 1
  /\ ~Excepted

\* The text score_comment scores for this iteration's comment.
TextToScore ==
  IF arg.should_remove_quotes
    THEN remove_quotes(loop_comment.body)
    ELSE loop_comment.body

\* score_comment has been called for a comment.
Scored == loop_i > 0 /\ pc # "score"

\* C29: a comment whose text to be scored has more than 20000 characters is
\* skipped: the scorer is not called, no rule is evaluated, no action is
\* applied and no record is written for it; a text of exactly 20000
\* characters is handed to the scorer.
C29_TooLongSkipped ==
  /\ (Scored /\ len(TextToScore) > 20000) =>
       /\ events = <<"too long">>
       /\ pc \notin {"rules", "apply", "log"}
       /\ scores.is_none
       /\ action_dict = <<>>
       /\ \A k \in DOMAIN reports : reports[k].i # this_i
       /\ \A k \in DOMAIN mod_log : mod_log[k][s_comment_id] # this_i
  /\ (Scored /\ len(TextToScore) <= 20000) =>
       /\ events # <<>>
       /\ events[1] = "score_text"

\* A comment of 20000 characters after its quoted line is removed was
\* scored, reported and logged; one of 20001 characters was skipped.
C29_Witness ==
  /\ pc = "stream"
  /\ loop_i = 2
  /\ len(loop_comment.body) = 20001
  /\ events = <<"too long">>
  /\ Len(mod_log) = 1
  /\ len(mod_log[1][s_orig_comment_text]) > 20000
  /\ len(mod_log[1][s_scored_comment_text]) = 20000
  /\ \E k \in DOMAIN reports : reports[k].i = 0

\* ---------------------------------------------- perspective_client: claims
\* The requests and sleeps of this call, in order.
Sent == SelectSeq(events, LAMBDA ev : ev.op \in {"post", "sleep"})

\* _post_request has returned a response to score_text.
PostReturned ==
  \/ pc \in {"returned", "scored"}
  \/ pc = "raised" /\ ret = Raise("HTTPError")

\* C30: _post_request never returns an out-of-quota response: every request
\* answered 429 is followed by a sleep of 5 seconds and another request,
\* however many were sent before; the response returned is the first one
\* that is not 429; and score_text never reports a 429 as an error.
C30_QuotaRetried ==
  /\ [](pc = "returned" => ret.value.status_code # _OUT_OF_QUOTA_STATUS)
  /\ [](PostReturned =>
          /\ Posts # <<>>
          /\ Posts[Len(Posts)].n # _OUT_OF_QUOTA_STATUS
          /\ \A k \in 1..(Len(Posts) - 1) :
               Posts[k].n = _OUT_OF_QUOTA_STATUS)
  /\ [](\A k \in DOMAIN Sent :
          /\ (Sent[k].op = "post" /\ k < Len(Sent)) =>
               /\ Sent[k].n = _OUT_OF_QUOTA_STATUS
               /\ Sent[k + 1] = [op |-> "sleep", n |-> 5]
          /\ (Sent[k].op = "sleep" /\ k < Len(Sent)) =>
               Sent[k + 1].op = "post")
  /\ []((pc = "post" /\ Sent # <<>>) =>
          Sent[Len(Sent)] = [op |-> "sleep", n |-> 5])
  /\ [][(pc = "post" /\ pc' # "raised"
           /\ Posts'[Len(Posts')].n = _OUT_OF_QUOTA_STATUS) =>
          pc' = "sleep"]_vars
  /\ [](pc = "sleep" => ENABLED QuotaSleep)
  /\ [][(pc = "sleep") => (pc' = "post" /\ now' = now + 5)]_vars
  /\ [](\A k \in DOMAIN events :
          events[k].op = "ERROR" => events[k].n # _OUT_OF_QUOTA_STATUS)

\* Three requests were answered 429, each followed by a sleep, and the
\* fourth was answered ok and gave the scores.
C30_Witness ==
  /\ pc = "scored"
  /\ ret = Return("scores")
  /\ Len(Posts) = 4
  /\ \A k \in 1..3 : Posts[k].n = _OUT_OF_QUOTA_STATUS
  /\ Posts[4].n = requests_codes_ok
  /\ now >= 15

\* ------------------------------------------------- comment_stream: claims
\* C31: comment_stream never yields a comment whose id is among the 100
\* ids it yielded last; seen_comment_ids holds those ids and is left alone
\* by a server error and the reconnect after it; and, with listings of at
\* most 100 comments made of the most recently yielded ones and of new ones,
\* no id is yielded twice.
C31_NoRepeat ==
  /\ [](\A j, k \in DOMAIN yielded :
          (j < k /\ k - j <= 100) => yielded[j] # yielded[k])
  /\ [](seen_comment_ids = last(yielded, 100))
  /\ [][(pc = "connect" \/ pc' = "connect") =>
          seen_comment_ids' = seen_comment_ids]_vars
  /\ [](\A j, k \in DOMAIN yielded : j # k => yielded[j] # yielded[k])

\* After 101 comments were yielded and the stream failed, the new stream
\* has delivered 98 comments yielded before, which were not yielded again,
\* and is about to deliver the one yielded last and then a new one.
C31_Witness ==
  /\ pc = "iterate"
  /\ now > 0
  /\ Len(yielded) = 101
  /\ listing = <<101, 102>>
  /\ seen_comment_ids[100] = 101

\* ----------------------------------------------------- dedup_logs: claims
\* dedup_within_window has read all of its input and written what it was
\* given.
DedupDone == pc \in {"returned", "raised"} /\ "in_stream" \in DOMAIN arg

\* Line j of the input is the first one with its id.
FirstOccurrence(j) ==
  \A i \in 1..(j - 1) : arg.in_stream[i].id # arg.in_stream[j].id

\* The line before line j with the id of line j, 0 when there is none.
PreviousOccurrence(j) ==
  IF FirstOccurrence(j)
    THEN 0
    ELSE CHOOSE i \in 1..(j - 1) :
           /\ arg.in_stream[i].id = arg.in_stream[j].id
           /\ \A h \in (i + 1)..(j - 1) : arg.in_stream[h].id # arg.in_stream[j].id

\* The output is made of input lines, in input order.
OutputInOrder ==
  /\ \A k \in DOMAIN out_file : out_file[k] = arg.in_stream[out_file[k].line]
  /\ \A k \in 1..(Len(out_file) - 1) : out_file[k].line < out_file[k + 1].line

\* Line j of the input is in the output.
Kept(j) == \E k \in DOMAIN out_file : out_file[k].line = j

\* The ids of the lines yielded before line j was read, oldest first.
YieldedBefore(j) ==
  LET before == SelectSeq(out_file, LAMBDA l : l.line < j)
  IN [k \in DOMAIN before |-> before[k].id]

\* A line is dropped iff its id is among the last window ids yielded.
DroppedIffInWindow ==
  \A j \in DOMAIN arg.in_stream :
    ~Kept(j) <=>
      \E k \in DOMAIN last(YieldedBefore(j), arg.window) :
        last(YieldedBefore(j), arg.window)[k] = arg.in_stream[j].id

\* Every duplicate is at most window lines after the previous line with
\* its id.
DuplicatesWithinWindow ==
  \A j \in DOMAIN arg.in_stream :
    ~FirstOccurrence(j) => j - PreviousOccurrence(j) <= arg.window

C33_CountsChecked ==
  /\ DedupDone =>
       /\ pc = "raised" <=>
            \/ Len(arg.in_stream) # arg.expected_total
            \/ Len(out_file) # arg.expected_unique
       /\ pc = "raised" => ret = Raise("ValueError")
       /\ frame.pos = Len(arg.in_stream)
       /\ frame.line = <<>>
       /\ Len(out_file) = frame.yielded
       /\ DroppedIffInWindow
  /\ (pc \in {"dedup", "write"} /\ "in_stream" \in DOMAIN arg) => ret = <<>>

\* The input of test_dedup_stream_raise_on_unexpected_dupes: the second line
\* with id 1 is beyond the window of 1, all three lines were written, and
\* ValueError was raised.
C33_Witness ==
  /\ pc = "raised"
  /\ "in_stream" \in DOMAIN arg
  /\ [k \in DOMAIN arg.in_stream |-> arg.in_stream[k].id] = <<1, 2, 1>>
  /\ arg.window = 1
  /\ arg.expected_total = 3
  /\ arg.expected_unique = 2
  /\ out_file = arg.in_stream

\* -------------------------------------------------- output paths: claims
\* dedup_logs starts and a file exists at its output path.
DedupOntoExisting ==
  /\ pc = "dedup_main"
  /\ arg.output_exists

C35_OutputIsPrefix ==
  /\ [](Distinct(input) => IsPrefix(IdsOf(output), IdsOf(input)))
  /\ [][(pc = "start" /\ pc' # "start" /\ Distinct(input) /\ output # <<>>) =>
          /\ ids_to_skip' = {input[i].comment_id : i \in 1..Len(output)}
          /\ Len(output) < Len(input) =>
               (pc' = "lines" /\ pos' = Len(output) /\ skipped' = Len(output))
          /\ Len(output) = Len(input) => pc' = "failed"]_vars

\* After a restart the reader skipped the two records an earlier run had
\* written and fed the third record of the input to the batcher.
C35_Witness ==
  /\ Distinct(input)
  /\ Len(input) = 3
  /\ Len(output) = 2
  /\ skipped = 2
  /\ first_fed = 3
  /\ pos = 3


\* ------------------------------------------------ slow consumer: claims
\* The batch a step hands to the consumer, and the number of records that
\* were in the input and not yet read when that batch was begun.
YieldsBatch == Len(emitted') = Len(emitted) + 1

AvailableAtRequest == Len(input) - (pos' - emitted'[Len(emitted')].n)

\* C36 as stated: a batch that was begun with at least _PRAW_BATCH_SIZE
\* unread records in the input is yielded with exactly _PRAW_BATCH_SIZE
\* records, however long the consumer held the batch before it.
C36_Original ==
  [][(YieldsBatch /\ AvailableAtRequest >= _PRAW_BATCH_SIZE) =>
       emitted'[Len(emitted')].n = _PRAW_BATCH_SIZE]_vars


\* ------------------------------------------------- scoring loop: claims
\* comment.report returned for this iteration's comment: a report was sent.
ReportSent ==
  /\ loop_i > 0
  /\ ~loop_comment.report_raises
  /\ \E k \in DOMAIN reports : reports[k].i = this_i

\* The record of this iteration's comment is in the log.
RecordWritten ==
  \E j \in DOMAIN mod_log : mod_log[j][s_comment_id] = this_i

\* C37 as stated: with an output path, once the iteration of a comment is
\* over, a report sent for that comment has its record in the log.
C37_Original ==
  (pc = "stream" /\ arg.output_dir # None /\ ReportSent) => RecordWritten


\* ------------------------------------------- moderator permissions: claims
\* The index of the comment at which the bot checks again that it is a
\* moderator.
IsRecheck(i) == i % 100 = 0 /\ i > 0

\* C38: a report is sent only in a step taken with both
\* initial_mod_permissions and recent_mod_permissions true, where
\* initial_mod_permissions never changes and recent_mod_permissions is the
\* answer of the startup check until the comment with the first index that
\* is a positive multiple of 100 is taken and changes only when such a
\* comment is taken; after a failed startup check nothing is ever reported;
\* without the permissions the step that would apply the actions goes on to
\* the logging of the record and changes nothing else, and scoring, rule
\* evaluation and logging are enabled whatever the permissions are.
C38_BothPermissions ==
  /\ [][reports' # reports =>
          (pc = "apply" /\ initial_mod_permissions /\ recent_mod_permissions)]_vars
  /\ [][initial_mod_permissions' = initial_mod_permissions]_vars
  /\ [][recent_mod_permissions' # recent_mod_permissions =>
          (pc = "stream" /\ IsRecheck(loop_i))]_vars
  /\ [](loop_i <= 100 => recent_mod_permissions = initial_mod_permissions)
  /\ [](~initial_mod_permissions => reports = <<>>)
  /\ [][(pc = "apply" /\ ~(initial_mod_permissions /\ recent_mod_permissions)) =>
          (pc' = "log" /\ UNCHANGED <<reports, mod_log, events>>)]_vars
  /\ [](pc = "score" => ENABLED ScoreComment)
  /\ [](pc = "rules" => ENABLED CheckRules)
  /\ [](pc = "log" => ENABLED AppendCommentData)

\* Comment 99 was reported under the startup permissions; the check made
\* when comment 100 was taken found the bot no longer a moderator, and
\* comment 100 was scored and logged with its report action, but not
\* reported.
C38_Witness ==
  /\ pc = "stream" /\ loop_i = 101
  /\ initial_mod_permissions /\ ~recent_mod_permissions
  /\ \E k \in DOMAIN reports : reports[k].i = 99
  /\ \A k \in DOMAIN reports : reports[k].i # 100
  /\ \E j \in DOMAIN mod_log :
       /\ mod_log[j][s_comment_id] = 100
       /\ s_report \in DOMAIN mod_log[j]


\* ------------------------------------------------ missing scores: claims
\* The dicts a scorer returns that has a score for each requested model.
CompleteScores(api_models) == [api_models -> {2, 9}]

\* score_comment's loop over the ensembles and then check_rules, on the
\* scores d of a comment.
Evaluate(rules, ensembles, d, values, comment) ==
  LET predicted == predict_all(ensembles, 1, d, values)
  IN IF predicted.raised # None
       THEN predicted
       ELSE check_rules(0, comment, rules, predicted.value.dict)

\* C39: when parse_config returns rules, api_models and ensembles, every
\* model of every rule is in api_models or is the name of one of the
\* ensembles, every feature of every ensemble is in api_models, and for
\* every score dict with a score for each of api_models and every comment
\* neither the ensembles nor the rules raise a KeyError.
C39_NoMissingScore ==
  pc = "returned" =>
    LET rules == ret.value[1]
        api_models == ret.value[2]
        ensembles == ret.value[3]
    IN /\ \A k \in DOMAIN rules : \A j \in DOMAIN rules[k].model_rules :
            rules[k].model_rules[j][1] \in
              api_models \cup {ensembles[e].name : e \in DOMAIN ensembles}
       /\ \A e \in DOMAIN ensembles :
            set(ensembles[e]._feature_col_names) \subseteq api_models
       /\ \A d \in CompleteScores(api_models),
             values \in [DOMAIN ensembles -> {2, 9}], comment \in BotComments :
            Evaluate(rules, ensembles, d, values, comment).raised # "KeyError"

\* A rule on the ensemble e1 and a rule on TOXICITY, e1 fed by TOXICITY and
\* THREAT: with all scores at 0.9 both rules fire.
C39_Witness ==
  /\ pc = "returned"
  /\ Len(ret.value[1]) = 2 /\ Len(ret.value[3]) = 1
  /\ ret.value[3][1].name = s_e1
  /\ ret.value[2] = {s_TOXICITY, s_THREAT}
  /\ \E comment \in BotComments :
       LET evaluated ==
             Evaluate(ret.value[1], ret.value[3],
                      [m \in ret.value[2] |-> 9], <<9>>, comment)
       IN /\ evaluated.raised = None
          /\ DOMAIN evaluated.value = {s_noop, s_report}


\* ------------------------------------------------------------ score_dataset
\* Rows of the dataset scored.
MaxRows == 3

\* perspective_client.py:106
max_workers == 5

\* The texts of the dataset: two the scorer scores, one it cannot score
\* (score_text returns None for it), and the null of a row without text.
Texts == {"good", "bad", "long", None}

\* score_text(text, models, ...) with raise_on_error=False, for the one
\* model requested.
score_text(text) ==
  IF text = "long"
    THEN NoScores
    ELSE ScoreDict(s_TOXICITY :> (IF text = "bad" THEN 9 ELSE 2))

\* Series.dropna(): the values that are not null, each with its label.
dropna(series) ==
  SelectSeq([k \in DOMAIN series |-> [label |-> k, text |-> series[k]]],
            LAMBDA x : x.text # None)

\* pd.DataFrame(rows) on a list of dicts: the rows are labelled by their
\* position, the columns are the keys of all of them, and a key a row
\* lacks is NaN in it (held as <<>>, a value v as <<v>>).
DataFrame(rows) ==
  LET columns == UNION {DOMAIN rows[k] : k \in DOMAIN rows}
  IN [k \in DOMAIN rows |->
        [col \in columns |->
           IF col \in DOMAIN rows[k] THEN <<rows[k][col]>> ELSE <<>>]]

\* DataFrame.rename(columns=renaming) with the prefix before every column.
rename(scores_df) ==
  [k \in DOMAIN scores_df |->
     LET row == scores_df[k]
     IN [col \in {s_score_prefix \o c : c \in DOMAIN row} |->
           row[SubSeq(col, Len(s_score_prefix) + 1, Len(col))]]]

\* The columns of a frame.
columns_of(scores_df) ==
  UNION {DOMAIN scores_df[k] : k \in DOMAIN scores_df}

\* pd.concat([df, scores], axis='columns'): rows are joined by their
\* labels, and a label one frame lacks gives NaN in its columns.
concat(df, scores_df) ==
  [k \in DOMAIN df \cup DOMAIN scores_df |->
     [text |-> IF k \in DOMAIN df THEN df[k] ELSE None,
      scores |-> IF k \in DOMAIN scores_df
                   THEN scores_df[k]
                   ELSE [col \in columns_of(scores_df) |-> <<>>]]]

\* score_dataframe calls score_texts on the texts that are not null:
\* executor.map submits score_one for each of them.
ScoreTexts ==
  /\ pc = "call"
  /\ "df" \in DOMAIN arg
  /\ frame' = [texts |-> dropna(arg.df), done |-> <<>>]
  /\ pc' = "map"
  /\ UNCHANGED <<env, ids_to_skip, pos, skipped, last_time, last_yield_time,
                 current_batch, oldest_read, lines_exited, records, wake_at,
                 emitted, waited, first_fed, seek_len, has_mod_creds,
                 statuses, comments_by_id, response, warned, leftover, arg,
                 ret, bot, _LAST_QUOTA_ERROR, seen_comment_ids, listing,
                 yielded, delivered, out_file>>

\* The calls of score_one that have not returned, in the order submitted.
Unfinished ==
  SelectSeq([k \in DOMAIN frame.texts |-> k],
            LAMBDA k : \A j \in DOMAIN frame.done : frame.done[j] # k)

\* One of the workers returns from score_one: any of the first max_workers
\* calls still unfinished.
ScoreOne ==
  /\ pc = "map"
  /\ \E u \in DOMAIN Unfinished :
       /\ u <= max_workers
       /\ frame' = [frame EXCEPT !.done = Append(@, Unfinished[u])]
  /\ UNCHANGED <<env, ids_to_skip, pos, skipped, last_time, last_yield_time,
                 current_batch, oldest_read, lines_exited, records, wake_at,
                 emitted, waited, first_fed, seek_len, has_mod_creds,
                 statuses, comments_by_id, response, warned, leftover, arg,
                 ret, pc, bot, _LAST_QUOTA_ERROR, seen_comment_ids, listing,
                 yielded, delivered, out_file>>

\* The iterator of executor.map has given every result, in the order of
\* the calls; score_dataframe builds the frame of the scores, renames its
\* columns and returns it beside df.
Concat ==
  /\ pc = "map"
  /\ Unfinished = <<>>
  /\ LET results == [k \in DOMAIN frame.texts |-> score_text(frame.texts[k].text)]
         scores_df == DataFrame([k \in DOMAIN results |->
                                   IF results[k].is_none
                                     THEN <<>>
                                     ELSE results[k].dict])
     IN ret' = concat(arg.df, rename(scores_df))
  /\ pc' = "returned"
  /\ UNCHANGED <<env, ids_to_skip, pos, skipped, last_time, last_yield_time,
                 current_batch, oldest_read, lines_exited, records, wake_at,
                 emitted, waited, first_fed, seek_len, has_mod_creds,
                 statuses, comments_by_id, response, warned, leftover, arg,
                 bot, _LAST_QUOTA_ERROR, tools>>

\* score_dataframe is called on a dataset of one to MaxRows rows.
InitScore ==
  /\ InitCall
  /\ arg \in [df : UNION {[1..n -> Texts] : n \in 1..MaxRows}]

NextScore ==
  \/ ScoreTexts
  \/ ScoreOne
  \/ Concat

SpecScore == InitScore /\ [][NextScore]_vars

\* ---------------------------------------------------- score_dataset: claims
\* The scores the scorer returns for a text, as the columns of a scored
\* row: NaN in every column when it returns None.
ScoresOf(text, columns) ==
  [col \in columns |->
     IF text = None \/ score_text(text).is_none
       THEN <<>>
       ELSE <<score_text(text).dict[SubSeq(col, Len(s_score_prefix) + 1, Len(col))]>>]

\* C40 as stated: the frame score_dataframe returns has the rows of df,
\* each with the scores returned for its own text, and with no score when
\* its text is null or could not be scored.
C40_Original ==
  (pc = "returned" /\ "df" \in DOMAIN arg) =>
    /\ DOMAIN ret = DOMAIN arg.df
    /\ \A k \in DOMAIN ret :
         /\ ret[k].text = arg.df[k]
         /\ ret[k].scores = ScoresOf(arg.df[k], DOMAIN ret[k].scores)

=============================================================================
